---------------------------- MODULE Spec2Model ----------------------------
(***************************************************************************)
(* Verification and shape inference of the LinalgExt operations             *)
(* (compiler/src/iree/compiler/Dialect/LinalgExt/IR/LinalgExtOps.cpp).      *)
(*                                                                         *)
(* The verifiers and the shape functions are pure: an operation record is  *)
(* built (Init), and one action applies the verifier or the shape function *)
(* of its kind to it.  Dimension indices keep the source's 0-based values; *)
(* sequences are 1-based, so shape[d + 1] is the source's shape[d].        *)
(***************************************************************************)
EXTENDS Integers, Sequences, FiniteSets, TLC

VARIABLES op, pc, result, shape

vars == <<op, pc, result, shape>>

(***************************************************************************)
(* Bounds of the model.                                                    *)
(***************************************************************************)
\* Largest unpacked rank of the operands of the pack shape function.
MaxRank == 2

\* Largest unpacked rank of the Pack / UnPack operations whose index sets,
\* tile counts and ranks are drawn freely (their extents all dynamic).
MaxStructRank == 2

\* Largest unpacked rank of the structurally valid Pack / UnPack operations
\* whose extents, tiles and declared packed shape are all drawn freely.
MaxPackRank == 1

\* Largest rank of the original (output) operand of a Scatter.
MaxScatterRank == 2

\* Largest small image extent of a Winograd input, and largest operand rank
\* of the structurally varied Winograd operations.
MaxImageExtent == 10

MaxInputRank == 5

\* Largest channel or filter extent of a Winograd filter.
MaxChannelExtent == 3

\* Largest number of tiles along an image axis of a Winograd output
\* transform's input.
MaxTileCount == 3

\* Largest rank of the query, key, value and output of an Attention
\* operation.
MaxAttentionRank == 4

\* Largest number of outputs and largest rank of a Sort operation.
MaxSortOutputs == 2

MaxSortRank == 2

\* Largest rank of the operands of a Topk operation.
MaxTopkRank == 2

\* Largest static length of an FFT operation.
MaxFftLength == 8

\* Largest rank of the input of a Scan operation.
MaxScanRank == 2

\* Largest rank of the operands of a Reverse operation.
MaxReverseRank == 3

\* Largest number of inputs and of outputs of an operation whose memory
\* effects are queried.
MaxOperands == 2

(***************************************************************************)
(* Shaped types.                                                           *)
(***************************************************************************)
\* ShapedType::kDynamic, the sentinel extent of a dynamic dimension: the
\* least representable integer (INT64_MIN in the source, the least value
\* kept here).  It is an ordinary integer to ==, <= and >.
kDynamic == -2147483647

isDynamic(extent) == extent = kDynamic

\* The sequences over S of length exactly n, and of length at most n.
SeqsOfLen(S, n) == [1 .. n -> S]

SeqsUpTo(S, n) == UNION {SeqsOfLen(S, k) : k \in 0 .. n}

\* llvm::seq<unsigned>(lo, hi) as a sequence: lo, lo + 1, ..., hi - 1.
seq(lo, hi) == [i \in 1 .. (IF hi > lo THEN hi - lo ELSE 0) |-> lo + i - 1]

take_back(s, n) == SubSeq(s, Len(s) - n + 1, Len(s))

Range(s) == {s[i] : i \in DOMAIN s}

\* A plausible slip of isInvalid: duplicates are not looked for.
isInvalidNoDuplicates(dimsPos, rank) ==
    IF Len(dimsPos) > rank THEN TRUE
    ELSE \E i \in DOMAIN dimsPos : dimsPos[i] < 0 \/ dimsPos[i] >= rank

\* Return true if dimsPos is invalid: more entries than rank, a duplicate,
\* or an entry outside [0, rank).
isInvalid(dimsPos, rank) ==
    IF Len(dimsPos) > rank THEN TRUE
    ELSE IF Len(dimsPos) # Cardinality(Range(dimsPos)) THEN TRUE
    ELSE \E i \in DOMAIN dimsPos : dimsPos[i] < 0 \/ dimsPos[i] >= rank

\* mlir::verifyCompatibleShape(ArrayRef, ArrayRef): equal rank, and on
\* every axis either extent dynamic or both equal.
verifyCompatibleShape(shape1, shape2) ==
    /\ Len(shape1) = Len(shape2)
    /\ \A i \in DOMAIN shape1 :
          isDynamic(shape1[i]) \/ isDynamic(shape2[i]) \/ shape1[i] = shape2[i]

\* A plausible slip of isSmallerThan: a strict comparison.
isSmallerThanStrict(sourceShape, limitShape) ==
    \A i \in DOMAIN sourceShape :
        \/ isDynamic(sourceShape[i])
        \/ isDynamic(limitShape[i])
        \/ sourceShape[i] < limitShape[i]

\* isSmallerThan: the caller guarantees equal rank (the assert of line 97).
isSmallerThan(sourceShape, limitShape) ==
    \A i \in DOMAIN sourceShape :
        \/ isDynamic(sourceShape[i])
        \/ isDynamic(limitShape[i])
        \/ sourceShape[i] <= limitShape[i]

(***************************************************************************)
(* Pack / UnPack shape algebra.                                            *)
(***************************************************************************)
\* C++ integer division truncates toward zero.
TruncDiv(a, b) ==
    IF (a >= 0) = (b > 0) \/ a = 0
    THEN (IF a >= 0 THEN a ELSE -a) \div (IF b > 0 THEN b ELSE -b)
    ELSE -((IF a >= 0 THEN a ELSE -a) \div (IF b > 0 THEN b ELSE -b))

\* A plausible slip of ceilDiv: the quotient rounded down.
ceilDivFloorMutant(lhs, rhs) == TruncDiv(lhs, rhs)

\* mlir::ceilDiv(lhs, rhs) as called at line 813 (rhs # 0):
\*   x = rhs > 0 ? -1 : 1;
\*   (lhs > 0) == (rhs > 0) ? ((lhs + x) / rhs) + 1 : -(-lhs / rhs)
ceilDiv(lhs, rhs) ==
    LET x == IF rhs > 0 THEN -1 ELSE 1
    IN  IF (lhs > 0) = (rhs > 0)
        THEN TruncDiv(lhs + x, rhs) + 1
        ELSE -TruncDiv(-lhs, rhs)

\* interchange<T>(elements, interchangeVector, offset): a copy of elements
\* in which position i + offset holds elements[interchangeVector[i] + offset]
\* for every i of the vector; the other positions keep their element.
interchange(elements, interchangeVector, offset) ==
    [i \in DOMAIN elements |->
        IF i - offset \in DOMAIN interchangeVector
        THEN elements[interchangeVector[i - offset] + offset + 1]
        ELSE elements[i]]

\* The loop of lines 805-814 from index idx on: each tiled dimension becomes
\* its tile count, dynamic when the extent or the tile size is dynamic.
RECURSIVE tileCounts(_, _, _, _)
tileCounts(resultShape, innerTileSizes, innerDimsPos, idx) ==
    IF idx > Len(innerDimsPos) THEN resultShape
    ELSE LET tiledDim == innerDimsPos[idx] + 1
         IN  IF isDynamic(resultShape[tiledDim])
             THEN tileCounts(resultShape, innerTileSizes, innerDimsPos, idx + 1)
             ELSE IF isDynamic(innerTileSizes[idx])
             THEN tileCounts([resultShape EXCEPT ![tiledDim] = kDynamic],
                             innerTileSizes, innerDimsPos, idx + 1)
             ELSE tileCounts([resultShape EXCEPT ![tiledDim] =
                                 ceilDiv(resultShape[tiledDim], innerTileSizes[idx])],
                             innerTileSizes, innerDimsPos, idx + 1)

\* A plausible slip of getPackOpResultTypeShape: outer_dims_perm forgotten.
getPackOpResultTypeShapeNoPerm(sourceShape, innerTileSizes, innerDimsPos, outerDimsPerm) ==
    tileCounts(sourceShape, innerTileSizes, innerDimsPos, 1) \o innerTileSizes

\* getPackOpResultTypeShape: tile counts, outer permutation, tiles appended.
getPackOpResultTypeShape(sourceShape, innerTileSizes, innerDimsPos, outerDimsPerm) ==
    interchange(tileCounts(sourceShape, innerTileSizes, innerDimsPos, 1),
                outerDimsPerm, 0) \o innerTileSizes

(***************************************************************************)
(* Operands of the pack shape function.                                    *)
(***************************************************************************)
\* Extents of the unpacked operand and tile sizes the model draws from.
UnpackedExtents == {kDynamic, 9, 10}

TileSizes == {kDynamic, 2, 3}

\* The index sets isInvalid accepts over rank r.
ValidIndexSets(r) == {s \in SeqsUpTo(0 .. r - 1, r) : ~isInvalid(s, r)}

PackShapeOp(S, T, P, O) ==
    [kind |-> "packShape", sourceShape |-> S, innerTileSizes |-> T,
     innerDimsPos |-> P, outerDimsPerm |-> O]

\* Every operand set up to rank MaxRank whose index sets are valid.
IsPackShapeOp(o) ==
    \E r \in 0 .. MaxRank : \E P \in ValidIndexSets(r), O \in ValidIndexSets(r) :
        \E S \in SeqsOfLen(UnpackedExtents, r), T \in SeqsOfLen(TileSizes, Len(P)) :
            o = PackShapeOp(S, T, P, O)

\* Operands one rank above MaxRank, with at most one tiled dimension and a
\* full outer permutation: the smallest rank with a permutation that is not
\* its own inverse.
IsPermutedShapeOp(o) ==
    LET r == MaxRank + 1
    IN  \E P \in {<<>>, <<0>>, <<r - 1>>} :
        \E O \in {x \in ValidIndexSets(r) : Len(x) = r} :
        \E S \in SeqsOfLen(UnpackedExtents, r), T \in SeqsOfLen(TileSizes, Len(P)) :
            o = PackShapeOp(S, T, P, O)

(***************************************************************************)
(* The pack shape function applied to one set of operands.                 *)
(***************************************************************************)
InitPackShape ==
    /\ IsPackShapeOp(op) \/ IsPermutedShapeOp(op)
    /\ pc = "built"
    /\ result = "none"
    /\ shape = <<>>

\* PackOp::getPackedType: the packed shape of the operands.
getPackedType ==
    /\ pc = "built"
    /\ op.kind = "packShape"
    /\ shape' = getPackOpResultTypeShape(op.sourceShape, op.innerTileSizes,
                                          op.innerDimsPos, op.outerDimsPerm)
    /\ pc' = "done"
    /\ UNCHANGED <<op, result>>

NextPackShape == getPackedType

SpecPackShape == InitPackShape /\ [][NextPackShape]_vars

(***************************************************************************)
(* Pack / UnPack verification.                                             *)
(*                                                                         *)
(* A tile size is an OpFoldResult: an attribute holding a constant         *)
(* (isAttr), or an SSA value, whose constant getConstantIntValue finds     *)
(* when a constant defines it (hasConst) and does not find otherwise.      *)
(***************************************************************************)
AttrTile(c) == [isAttr |-> TRUE, hasConst |-> TRUE, val |-> c]

ConstValueTile(c) == [isAttr |-> FALSE, hasConst |-> TRUE, val |-> c]

ValueTile == [isAttr |-> FALSE, hasConst |-> FALSE, val |-> 0]

\* Return true if at least one element in tiles is the constant zero.
hasZeros(tiles) == \E i \in DOMAIN tiles : tiles[i].hasConst /\ tiles[i].val = 0

\* getStaticTiles: the tile sizes as integers, kDynamic for an SSA value.
getStaticTiles(mixedTiles) ==
    [i \in DOMAIN mixedTiles |->
        IF mixedTiles[i].isAttr THEN mixedTiles[i].val ELSE kDynamic]

\* getDimAndTileMapping: dimsToBlock[i] bound to tiles[i], a later entry
\* for the same dimension replacing an earlier one.
getDimAndTileMapping(dimsToBlock, tiles) ==
    [d \in Range(dimsToBlock) |->
        LET last == CHOOSE i \in DOMAIN dimsToBlock :
                        /\ dimsToBlock[i] = d
                        /\ \A j \in DOMAIN dimsToBlock : dimsToBlock[j] = d => j <= i
        IN  tiles[last]]

\* A plausible slip of areNotFullTiles: never reports a partial tile.
areNotFullTilesNever(inputShape, dimAndTileMapping) == FALSE

\* areNotFullTiles: some static dimension is tiled by a constant tile size
\* that does not divide it.
areNotFullTiles(inputShape, dimAndTileMapping) ==
    \E dim \in 0 .. Len(inputShape) - 1 :
        /\ ~isDynamic(inputShape[dim + 1])
        /\ dim \in DOMAIN dimAndTileMapping
        /\ dimAndTileMapping[dim].hasConst
        /\ inputShape[dim + 1] % dimAndTileMapping[dim].val # 0

\* The all_of of lines 708-729 for one trailing axis of the packed type.
tileMatchesShape(extent, tile) ==
    IF ~tile.hasConst THEN isDynamic(extent)
    ELSE IF isDynamic(extent) THEN TRUE
    ELSE extent = tile.val

\* A plausible slip of commonVerifierPackAndUnPackOp: inner_dims_pos is
\* only tested for entries outside the unpacked rank.
commonVerifierPackAndUnPackOpRangeOnly(o) ==
    LET unpackedRank == Len(o.unpackedShape)
        packedRank == Len(o.packedShape)
        mixedTiles == o.mixedTiles
    IN  IF hasZeros(mixedTiles) THEN "invalid tile factor"
        ELSE IF \E i \in DOMAIN o.innerDimsPos :
                    o.innerDimsPos[i] < 0 \/ o.innerDimsPos[i] >= unpackedRank
        THEN "invalid inner_dims_pos vector"
        ELSE IF isInvalid(o.outerDimsPerm, unpackedRank)
        THEN "invalid outer_dims_perm vector"
        ELSE IF Len(mixedTiles) # Len(o.innerDimsPos)
        THEN "blocking factors must equal the number of dimensions to block"
        ELSE IF Len(mixedTiles) > unpackedRank
        THEN "blocking factors must be less or equal than the input rank"
        ELSE IF unpackedRank + Len(mixedTiles) # packedRank
        THEN "packed rank must equal unpacked rank + blocking factors"
        ELSE IF ~isSmallerThan(
                    getPackOpResultTypeShape(o.unpackedShape,
                        getStaticTiles(mixedTiles), o.innerDimsPos, o.outerDimsPerm),
                    o.packedShape)
        THEN "the shape of output is not large enough to hold the packed data"
        ELSE IF ~\A i \in DOMAIN mixedTiles :
                    tileMatchesShape(take_back(o.packedShape, Len(mixedTiles))[i],
                                     mixedTiles[i])
        THEN "mismatch in inner tile sizes specified and shaped of tiled dimension in the packed type"
        ELSE "success"

\* commonVerifierPackAndUnPackOp: the diagnostic of the first failed check,
\* or "success".
commonVerifierPackAndUnPackOp(o) ==
    LET unpackedRank == Len(o.unpackedShape)
        packedRank == Len(o.packedShape)
        mixedTiles == o.mixedTiles
    IN  IF hasZeros(mixedTiles) THEN "invalid tile factor"
        ELSE IF isInvalid(o.innerDimsPos, unpackedRank)
        THEN "invalid inner_dims_pos vector"
        ELSE IF isInvalid(o.outerDimsPerm, unpackedRank)
        THEN "invalid outer_dims_perm vector"
        ELSE IF Len(mixedTiles) # Len(o.innerDimsPos)
        THEN "blocking factors must equal the number of dimensions to block"
        ELSE IF Len(mixedTiles) > unpackedRank
        THEN "blocking factors must be less or equal than the input rank"
        ELSE IF unpackedRank + Len(mixedTiles) # packedRank
        THEN "packed rank must equal unpacked rank + blocking factors"
        ELSE IF ~isSmallerThan(
                    getPackOpResultTypeShape(o.unpackedShape,
                        getStaticTiles(mixedTiles), o.innerDimsPos, o.outerDimsPerm),
                    o.packedShape)
        THEN "the shape of output is not large enough to hold the packed data"
        ELSE IF ~\A i \in DOMAIN mixedTiles :
                    tileMatchesShape(take_back(o.packedShape, Len(mixedTiles))[i],
                                     mixedTiles[i])
        THEN "mismatch in inner tile sizes specified and shaped of tiled dimension in the packed type"
        ELSE "success"

\* PackOp::verify.
PackOpVerify(o) ==
    LET common == commonVerifierPackAndUnPackOp(o)
    IN  IF common # "success" THEN common
        ELSE IF /\ o.paddingValue = "none"
                /\ areNotFullTiles(o.unpackedShape,
                        getDimAndTileMapping(o.innerDimsPos, o.mixedTiles))
        THEN "invalid tile factor provided. Only full tiles are supported when padding_value is not set"
        ELSE IF o.paddingValue # "none" /\ o.paddingValue # o.elementType
        THEN "expected padding_value has the element type of the input"
        ELSE "success"

\* A plausible slip of UnPackOp::verify: the full-tile guard of
\* PackOp::verify applied to the unpacked shape.
UnPackOpVerifyFullTiles(o) ==
    IF commonVerifierPackAndUnPackOp(o) # "success"
    THEN commonVerifierPackAndUnPackOp(o)
    ELSE IF areNotFullTiles(o.unpackedShape,
                getDimAndTileMapping(o.innerDimsPos, o.mixedTiles))
    THEN "invalid tile factor provided. Only full tiles are supported when padding_value is not set"
    ELSE "success"

\* UnPackOp::verify.
UnPackOpVerify(o) ==
    IF commonVerifierPackAndUnPackOp(o) # "success"
    THEN commonVerifierPackAndUnPackOp(o)
    ELSE "success"

(***************************************************************************)
(* Pack / UnPack operations under verification.                            *)
(***************************************************************************)
PackOrUnPack(kind, S, D, P, T, O, pad) ==
    [kind |-> kind, unpackedShape |-> S, packedShape |-> D, innerDimsPos |-> P,
     mixedTiles |-> T, outerDimsPerm |-> O, paddingValue |-> pad,
     elementType |-> "f32"]

\* Pack without padding value, with a padding value of the element type,
\* with one of another type; UnPack (which has no padding value).
KindAndPadding ==
    {<<"pack", "none">>, <<"pack", "f32">>, <<"pack", "i32">>, <<"unpack", "none">>}

PackedExtents == {kDynamic, 3, 4, 10}

NonZeroTiles == {AttrTile(3), ConstValueTile(3), ValueTile}

AllDynamic(n) == [i \in 1 .. n |-> kDynamic]

\* Tile lists of length k: all the attribute 3, or one entry replaced by a
\* zero attribute, a zero constant value or a non-constant value.
StructTiles(k) ==
    {[i \in 1 .. k |-> AttrTile(3)]}
    \cup {[[i \in 1 .. k |-> AttrTile(3)] EXCEPT ![j] = t] :
             j \in 1 .. k, t \in {AttrTile(0), ConstValueTile(0), ValueTile}}

\* Outer permutations, valid and invalid, over rank r.
PermSamples(r) ==
    {<<>>, [i \in 1 .. r |-> i - 1], [i \in 1 .. r |-> r - i], <<0, 0>>,
     <<r>>, <<-1>>, [i \in 1 .. r + 1 |-> i - 1]}

\* Operations with all extents dynamic whose inner_dims_pos is any sequence
\* over -1 .. r of length at most r + 1, with any number of tiles up to
\* r + 1 and a packed rank at, below or above unpacked rank + tile count.
IsStructPackOp(o) ==
    \E r \in 0 .. MaxStructRank : \E k \in 0 .. r + 1 :
    \E P \in SeqsUpTo(-1 .. r, r + 1), T \in StructTiles(k), O \in PermSamples(r) :
    \E n \in {m \in {r + k - 1, r + k, r + k + 1} : m >= 0} :
    \E kp \in {<<"pack", "none">>, <<"unpack", "none">>} :
        o = PackOrUnPack(kp[1], AllDynamic(r), AllDynamic(n), P, T, O, kp[2])

\* Structurally valid operations of unpacked rank r with at most maxTiled
\* tiled dimensions: every unpacked shape, tile list, outer permutation
\* from perms and declared packed shape of the right rank.
IsShapePackOp(o, r, maxTiled, perms) ==
    \E P \in {x \in ValidIndexSets(r) : Len(x) <= maxTiled}, O \in perms :
    \E S \in SeqsOfLen(UnpackedExtents, r), T \in SeqsOfLen(NonZeroTiles, Len(P)) :
    \E D \in SeqsOfLen(PackedExtents, r + Len(P)), kp \in KindAndPadding :
        o = PackOrUnPack(kp[1], S, D, P, T, O, kp[2])

InitPackStruct ==
    /\ IsStructPackOp(op)
    /\ pc = "built"
    /\ result = "none"
    /\ shape = <<>>

\* All the structurally valid operations up to rank MaxPackRank, and those
\* of the next rank with one tiled dimension and no or the reversing outer
\* permutation.
InitPack ==
    /\ \/ \E r \in 0 .. MaxPackRank : IsShapePackOp(op, r, r, ValidIndexSets(r))
       \/ IsShapePackOp(op, MaxPackRank + 1, 1,
                        {<<>>, [i \in 1 .. MaxPackRank + 1 |-> MaxPackRank + 1 - i]})
    /\ pc = "built"
    /\ result = "none"
    /\ shape = <<>>

PackOp_verify ==
    /\ pc = "built"
    /\ op.kind = "pack"
    /\ result' = PackOpVerify(op)
    /\ pc' = "verified"
    /\ UNCHANGED <<op, shape>>

UnPackOp_verify ==
    /\ pc = "built"
    /\ op.kind = "unpack"
    /\ result' = UnPackOpVerify(op)
    /\ pc' = "verified"
    /\ UNCHANGED <<op, shape>>

NextPack == PackOp_verify \/ UnPackOp_verify

SpecPack == InitPack /\ [][NextPack]_vars

SpecPackStruct == InitPackStruct /\ [][NextPack]_vars

(***************************************************************************)
(* ScatterOp.                                                              *)
(***************************************************************************)
\* ScatterOp::getIndexDepth: the last extent of the indices type.
getIndexDepth(o) == o.indicesShape[Len(o.indicesShape)]

\* getComplexElementTypeOrSelf(ty).isIntOrFloat().
isIntOrFloatOrComplex(ty) == ty \in {"f32", "i32", "i64", "i1", "complex<f32>"}

exceedsDiagnostic == "shape of update value dim exceeds original value at dim"

indexedExceedsDiagnostic == "indexed shape of update value dim exceeds original value at dim"

\* A plausible slip of the comparison of lines 178-180 and 193-195: >= in
\* place of >.
exceedsOrEqualsOriginal(o, originalDims, updateDims) ==
    \E i \in DOMAIN originalDims :
        /\ ~isDynamic(o.originalShape[originalDims[i] + 1])
        /\ o.updateShape[updateDims[i] + 1] >= o.originalShape[originalDims[i] + 1]

\* The body shared by the two loops of lines 172-201: some pair of an
\* original dimension and an update dimension has a static original extent
\* smaller than the update extent.
exceedsOriginal(o, originalDims, updateDims) ==
    \E i \in DOMAIN originalDims :
        /\ ~isDynamic(o.originalShape[originalDims[i] + 1])
        /\ o.updateShape[updateDims[i] + 1] > o.originalShape[originalDims[i] + 1]

\* The payload region checks of lines 203-238.
scatterRegionVerify(o) ==
    IF Len(o.regionArgs) # 2 THEN "expected region to have two arguments"
    ELSE IF ~isIntOrFloatOrComplex(o.regionArgs[1]) \/ ~isIntOrFloatOrComplex(o.regionArgs[2])
    THEN "expected region to have scalar argument of integer or float types"
    ELSE IF o.regionArgs[1] # o.updateElementType
    THEN "mismatch in argument 0 of region and element type of update value"
    ELSE IF o.regionArgs[2] # o.originalElementType
    THEN "mismatch in argument 1 of region and element type of original value"
    ELSE IF o.regionArgs[1] # o.regionArgs[2]
    THEN "mismatch in region argument types"
    ELSE IF Len(o.yieldOperands) # 1
    THEN "expected region to yield a single value"
    ELSE IF o.yieldOperands[1] # o.regionArgs[1]
    THEN "mismatch in type of yielded value and argument of the region"
    ELSE "success"

\* A plausible slip of the extent checks: the loop over the indexed
\* dimensions, lines 186-201, is left out.
scatterExtentsVerifyNoIndexedLoop(o) ==
    LET indexDepth == getIndexDepth(o)
        originalRank == Len(o.originalShape)
        updateRank == Len(o.updateShape)
        fullSliceDims == originalRank - indexDepth
    IN  IF exceedsOriginal(o, seq(indexDepth, originalRank),
                           seq(updateRank - fullSliceDims, updateRank))
        THEN exceedsDiagnostic
        ELSE scatterRegionVerify(o)

\* The extent checks of lines 169-201 followed by the region checks.
scatterExtentsVerify(o) ==
    LET indexDepth == getIndexDepth(o)
        originalRank == Len(o.originalShape)
        updateRank == Len(o.updateShape)
        fullSliceDims == originalRank - indexDepth
        insertDims == originalRank - updateRank + 1
    IN  IF exceedsOriginal(o, seq(indexDepth, originalRank),
                           seq(updateRank - fullSliceDims, updateRank))
        THEN exceedsDiagnostic
        ELSE IF exceedsOriginal(o, seq(insertDims, indexDepth),
                                seq(1, updateRank - fullSliceDims))
        THEN indexedExceedsDiagnostic
        ELSE scatterRegionVerify(o)

\* A plausible slip of ScatterOp::verify: the two rank checks of lines
\* 157-167 are left out.
ScatterOpVerifyNoRankChecks(o) ==
    IF o.numInputs # 2 THEN "expected two input operands"
    ELSE IF o.numOutputs # 1 THEN "expected one output operand"
    ELSE IF Len(o.indicesShape) # 2 \/ o.indicesElementType # "i32"
    THEN "expected indices to be of rank 2 of i32 element type"
    ELSE IF isDynamic(getIndexDepth(o)) THEN "expected index depth is static"
    ELSE IF Len(o.dimensionMap) # getIndexDepth(o)
    THEN "invalid number of dimension map entries "
    ELSE IF isInvalid(o.dimensionMap, Len(o.originalShape))
    THEN "dimension map is invalid"
    ELSE IF Len(o.updateShape) < 1
    THEN "expected update value to be at least rank 1"
    ELSE IF o.indicesShape[1] # o.updateShape[1]
    THEN "mismatch in shape of indices and update value at dim#0"
    ELSE "success"

\* ScatterOp::verify: the diagnostic of the first failed check, or "success".
ScatterOpVerify(o) ==
    IF o.numInputs # 2 THEN "expected two input operands"
    ELSE IF o.numOutputs # 1 THEN "expected one output operand"
    ELSE IF Len(o.indicesShape) # 2 \/ o.indicesElementType # "i32"
    THEN "expected indices to be of rank 2 of i32 element type"
    ELSE IF isDynamic(getIndexDepth(o)) THEN "expected index depth is static"
    ELSE IF Len(o.dimensionMap) # getIndexDepth(o)
    THEN "invalid number of dimension map entries "
    ELSE IF isInvalid(o.dimensionMap, Len(o.originalShape))
    THEN "dimension map is invalid"
    ELSE IF Len(o.updateShape) < 1
    THEN "expected update value to be at least rank 1"
    ELSE IF o.indicesShape[1] # o.updateShape[1]
    THEN "mismatch in shape of indices and update value at dim#0"
    ELSE IF Len(o.updateShape) - 1 > Len(o.originalShape)
    THEN "update value rank exceeds the rank of the original value"
    ELSE IF Len(o.originalShape) > getIndexDepth(o) + Len(o.updateShape) - 1
    THEN "index depth and update value does not cover rank of original value"
    ELSE scatterExtentsVerify(o)

(***************************************************************************)
(* The index ranges of the two extent loops of ScatterOp::verify.          *)
(***************************************************************************)
\* The bounds <<begin, end>> handed to llvm::seq at lines 172-174 (first
\* loop) and 188-189 (second loop), before their conversion to unsigned.
scatterRanges(o) ==
    LET indexDepth == getIndexDepth(o)
        originalRank == Len(o.originalShape)
        updateRank == Len(o.updateShape)
        fullSliceDims == originalRank - indexDepth
        insertDims == originalRank - updateRank + 1
    IN  [sliceOriginal |-> <<indexDepth, originalRank>>,
         sliceUpdate |-> <<updateRank - fullSliceDims, updateRank>>,
         indexedOriginal |-> <<insertDims, indexDepth>>,
         indexedUpdate |-> <<1, updateRank - fullSliceDims>>]

(***************************************************************************)
(* Scatter operations under verification.                                  *)
(***************************************************************************)
Scatter(ni, no, ishape, ielem, ushape, oshape, elems, dimMap, args, yields) ==
    [kind |-> "scatter", numInputs |-> ni, numOutputs |-> no,
     indicesShape |-> ishape, indicesElementType |-> ielem,
     updateShape |-> ushape, updateElementType |-> elems[1],
     originalShape |-> oshape, originalElementType |-> elems[2],
     dimensionMap |-> dimMap, regionArgs |-> args, yieldOperands |-> yields]

ScalarTypes == {"f32", "i32", "index", "complex<f32>"}

UpdateExtents == {kDynamic, 4, 6}

OriginalExtents == {kDynamic, 4, 8}

\* Indices types: rank 2 with every index depth from 0 to maxDepth and a
\* dynamic one, rank 1 and rank 3; 32-bit and 64-bit integers.
IndicesShapes(maxDepth) ==
    {<<5, d>> : d \in (0 .. maxDepth) \cup {kDynamic}} \cup {<<5>>, <<5, 1, 1>>}

\* Any indices type, dimension map over -1 .. ro of length at most ro + 1,
\* update rank and original rank; the slice extents all dynamic and the
\* region well typed.
IsStructScatterOp(o) ==
    \E ro \in 0 .. MaxScatterRank, ru \in 0 .. MaxScatterRank + 2 :
    \E ishape \in IndicesShapes(MaxScatterRank + 1), ielem \in {"i32", "i64"} :
    \E dimMap \in SeqsUpTo(-1 .. ro, ro + 1) :
        o = Scatter(2, 1, ishape, ielem,
                    IF ru = 0 THEN <<>> ELSE <<5>> \o AllDynamic(ru - 1),
                    AllDynamic(ro), <<"f32", "f32">>, dimMap,
                    <<"f32", "f32">>, <<"f32">>)

\* Operations that pass every check before the extent comparisons but for
\* the dim#0 match: every valid dimension map, every admissible update
\* rank, and every extent of the indices' and the update's dim 0, of the
\* update slices and of the original.
IsExtentScatterOp(o) ==
    \E ro \in 0 .. MaxScatterRank : \E dimMap \in ValidIndexSets(ro) :
    \E ru \in {n \in 1 .. MaxScatterRank + 1 : n - 1 <= ro /\ ro <= Len(dimMap) + n - 1} :
    \E n0 \in {kDynamic, 5}, u0 \in {kDynamic, 5, 6} :
    \E slices \in SeqsOfLen(UpdateExtents, ru - 1), oshape \in SeqsOfLen(OriginalExtents, ro) :
        o = Scatter(2, 1, <<n0, Len(dimMap)>>, "i32", <<u0>> \o slices, oshape,
                    <<"f32", "f32">>, dimMap, <<"f32", "f32">>, <<"f32">>)

\* indices [5,1], updates [5,4], original [8,4], dimension map [0] with
\* every element type of the update and the original, every region argument
\* list up to three arguments and every yield of up to two values.
IsRegionScatterOp(o) ==
    \E elems \in SeqsOfLen({"f32", "i32"}, 2) :
    \E args \in SeqsUpTo(ScalarTypes, 3), yields \in SeqsUpTo(ScalarTypes, 2) :
        o = Scatter(2, 1, <<5, 1>>, "i32", <<5, 4>>, <<8, 4>>, elems, <<0>>,
                    args, yields)

\* The operation of the specification's example, indices [5,2] with
\* dimension map [0], with updates [5,4] and [5,6], and the same operation
\* with another number of inputs or outputs.
IsExampleScatterOp(o) ==
    \E ni \in 1 .. 3, no \in 0 .. 2, ushape \in {<<5, 4>>, <<5, 6>>} :
        o = Scatter(ni, no, <<5, 2>>, "i32", ushape, <<8, 4>>, <<"f32", "f32">>,
                    <<0>>, <<"f32", "f32">>, <<"f32">>)

InitScatter ==
    /\ \/ IsStructScatterOp(op)
       \/ IsExtentScatterOp(op)
       \/ IsRegionScatterOp(op)
       \/ IsExampleScatterOp(op)
    /\ pc = "built"
    /\ result = "none"
    /\ shape = <<>>

ScatterOp_verify ==
    /\ pc = "built"
    /\ op.kind = "scatter"
    /\ result' = ScatterOpVerify(op)
    /\ pc' = "verified"
    /\ UNCHANGED <<op, shape>>

NextScatter == ScatterOp_verify

SpecScatter == InitScatter /\ [][NextScatter]_vars

(***************************************************************************)
(* Single-precision arithmetic of line 1026:                               *)
(*   std::ceil((float)(inputShape[i] - kernelSize + 1) / outputTileSize)   *)
(* A float carries kFloatDigits significant bits; conversions and the      *)
(* division round to nearest, ties to the even significand.                *)
(***************************************************************************)
kFloatDigits == 24

RECURSIVE floorLog2(_)
floorLog2(n) == IF n < 2 THEN 0 ELSE 1 + floorLog2(n \div 2)

\* The multiple of m nearest to a / b, ties to the even multiple
\* (a >= 0, b > 0, m > 0).
roundHalfEven(a, b, m) ==
    LET t == a \div (b * m)
        r == a % (b * m)
    IN  IF 2 * r < b * m THEN t * m
        ELSE IF 2 * r > b * m THEN (t + 1) * m
        ELSE IF t % 2 = 0 THEN t * m ELSE (t + 1) * m

\* A plausible slip: the conversion is taken to be exact.
toFloatExact(n) == n

\* (float)n for a 64-bit integer n.
toFloat(n) ==
    LET a == IF n < 0 THEN -n ELSE n
        f == IF a < 2 ^ kFloatDigits THEN a
             ELSE roundHalfEven(a, 1, 2 ^ (floorLog2(a) - (kFloatDigits - 1)))
    IN  IF n < 0 THEN -f ELSE f

\* std::ceil(x / y) for floats x and y of integral value, y > 0: the
\* quotient is rounded to a float first.  Below 2^(kFloatDigits-1) the
\* rounded quotient keeps a fraction unless the fraction is within half a
\* unit in the last place of an integer.
ceilOfFloatDiv(x, y) ==
    LET a == IF x < 0 THEN -x ELSE x
        q == a \div y
        rem == a % y
        k == floorLog2(q)
        halfUlpInv == 2 ^ (kFloatDigits - k)
        roundsDown == rem * halfUlpInv <= y
        roundsUp == (y - rem) * halfUlpInv <= y
        intPart == IF q >= 2 ^ (kFloatDigits - 1)
                   THEN roundHalfEven(a, y, 2 ^ (k - (kFloatDigits - 1)))
                   ELSE IF rem = 0 \/ roundsDown THEN q
                   ELSE IF roundsUp THEN q + 1 ELSE q
        hasFraction == /\ q < 2 ^ (kFloatDigits - 1)
                       /\ rem # 0 /\ ~roundsDown /\ ~roundsUp
    IN  IF x < 0 THEN -intPart
        ELSE IF hasFraction THEN intPart + 1 ELSE intPart

(***************************************************************************)
(* WinogradInputTransformOp                                                *)
(***************************************************************************)
\* inputTileSize = outputTileSize + kernelSize - 1.
getInputTileSize(o) == o.outputTileSize + o.kernelSize - 1

isNhwc(o) == o.imageDimensions = <<1, 2>>

isNchw(o) == o.imageDimensions = <<2, 3>>

\* permute<Permutation::TTNCHW_TO_TTNHWC>: result[i] = vector[perm[i]] with
\* perm = {0, 1, 2, 4, 5, 3}.
permute_TTNCHW_TO_TTNHWC(vector) ==
    LET perm == <<0, 1, 2, 4, 5, 3>>
    IN  [i \in 1 .. Len(vector) |-> vector[perm[i] + 1]]

\* The loop of lines 1013-1028.
winogradInputExpectedShape(o) ==
    LET numImageDims == Len(o.imageDimensions)
        inputTileSize == getInputTileSize(o)
    IN  [j \in 1 .. Len(o.outputShape) |->
            IF j <= numImageDims \/ j - numImageDims > Len(o.inputShape)
            THEN inputTileSize
            ELSE LET e == o.inputShape[j - numImageDims]
                 IN  IF isDynamic(e) THEN e
                     ELSE IF (j - numImageDims - 1) \notin Range(o.imageDimensions) THEN e
                     ELSE ceilOfFloatDiv(toFloat(e - o.kernelSize + 1),
                                         toFloat(o.outputTileSize))]

\* The rank-2 branch, lines 974-993.
winogradInputVerifyRank2(o) ==
    LET inputTileSize == getInputTileSize(o)
    IN  IF Len(o.outputShape) # 2
        THEN "expected output operand to have rank 2 if input is of rank 2"
        ELSE IF \/ ~isDynamic(o.inputShape[1]) /\ o.inputShape[1] > inputTileSize
                \/ isDynamic(o.inputShape[2]) /\ o.inputShape[2] > inputTileSize
        THEN "expected input dims not greater than input tile size if input is of rank 2"
        ELSE IF ~verifyCompatibleShape(<<inputTileSize, inputTileSize>>, o.outputShape)
        THEN "expected output dims equal to inputTileSize if input is of rank 2"
        ELSE "success"

\* WinogradInputTransformOp::verify: the diagnostic of the first failed
\* check, or "success".
WinogradInputTransformOpVerify(o) ==
    IF o.numInputs # 1 THEN "expected one input operand"
    ELSE IF o.numOutputs # 1 THEN "expected one output operand"
    ELSE IF o.outputElementType # o.inputElementType
    THEN "expected input/output element types to be identical"
    ELSE IF Len(o.inputShape) # 2 /\ Len(o.inputShape) # 4
    THEN "expected input operand to have rank either 2 or 4"
    ELSE IF Len(o.inputShape) = 2 THEN winogradInputVerifyRank2(o)
    ELSE IF Len(o.outputShape) # Len(o.inputShape) + 2
    THEN "expected output rank to be equal to input rank + 2"
    ELSE IF Len(o.imageDimensions) # 2 THEN "expected only 2 image dimensions"
    ELSE IF ~isNchw(o) /\ ~isNhwc(o)
    THEN "expect image dimensions to be either [1, 2] or [2, 3]"
    ELSE LET expected == winogradInputExpectedShape(o)
             expectedOutputShape == IF isNchw(o) THEN permute_TTNCHW_TO_TTNHWC(expected)
                                    ELSE expected
         IN  IF ~verifyCompatibleShape(expectedOutputShape, o.outputShape)
             THEN "incompatible output shape"
             ELSE "success"

(***************************************************************************)
(* Winograd input transforms under verification.                           *)
(***************************************************************************)
WinogradInput(ni, no, ishape, oshape, elems, imageDims, kernelSize, outputTileSize) ==
    [kind |-> "winograd.input_transform", numInputs |-> ni, numOutputs |-> no,
     inputShape |-> ishape, inputElementType |-> elems[1],
     outputShape |-> oshape, outputElementType |-> elems[2],
     imageDimensions |-> imageDims, kernelSize |-> kernelSize,
     outputTileSize |-> outputTileSize]

\* The smallest extent e for which (float)(e - 3 + 1) is inexact.
LargeExtent == 2 ^ kFloatDigits + 3

OutputTileSizes == {4, 6}

\* [N, H, W, C] laid out channel-last (image dimensions [1,2]) or
\* channel-first (image dimensions [2,3]).
LaidOut(imageDims, n, h, w, c) ==
    IF imageDims = <<1, 2>> THEN <<n, h, w, c>> ELSE <<n, c, h, w>>

\* Number of inputs and outputs and the element types vary; the shapes are
\* input [1,10,10,3] and output [6,6,1,2,2,3].
IsArityWinogradInputOp(o) ==
    \E ni \in 0 .. 2, no \in 0 .. 2, elems \in SeqsOfLen({"f32", "f16"}, 2) :
        o = WinogradInput(ni, no, <<1, 10, 10, 3>>, <<6, 6, 1, 2, 2, 3>>, elems,
                          <<1, 2>>, 3, 4)

\* Every input rank, output ranks around it, every list of up to three
\* image dimensions; all extents dynamic.
IsStructWinogradInputOp(o) ==
    \E ri \in 0 .. MaxInputRank, ro \in 0 .. MaxInputRank + 3 :
    \E imageDims \in SeqsUpTo(0 .. 3, 3) :
        o = WinogradInput(1, 1, AllDynamic(ri), AllDynamic(ro), <<"f32", "f32">>,
                          imageDims, 3, 4)

\* Rank 2: every input of extents up to MaxImageExtent or dynamic, outputs
\* of extents around the input tile size.
IsRank2WinogradInputOp(o) ==
    \E ots \in OutputTileSizes :
    \E ishape \in SeqsOfLen((0 .. MaxImageExtent) \cup {kDynamic}, 2) :
    \E oshape \in SeqsOfLen({kDynamic, ots + 1, ots + 2, ots + 3}, 2) :
        o = WinogradInput(1, 1, ishape, oshape, <<"f32", "f32">>, <<1, 2>>, 3, ots)

\* Rank 4, both layouts: one image axis ranges over every extent up to
\* MaxImageExtent, LargeExtent and dynamic; the declared output ranges over
\* tile extents, batch and channel extents, and tile counts around the
\* values the input can produce.
IsRank4WinogradInputOp(o) ==
    \E ots \in OutputTileSizes, imageDims \in {<<1, 2>>, <<2, 3>>}, swap \in BOOLEAN :
    \E n \in {kDynamic, 1}, c \in {kDynamic, 3} :
    \E h \in (0 .. MaxImageExtent) \cup {kDynamic, LargeExtent}, w \in {kDynamic, 10} :
    \E t1 \in {kDynamic, ots + 2}, t2 \in {ots + 1, ots + 2} :
    \E n2 \in {1, 2}, c2 \in {kDynamic, 3} :
    \E h2 \in (0 .. 3) \cup {kDynamic, (LargeExtent - 2) \div ots, (LargeExtent - 2) \div ots + 1} :
    \E w2 \in {kDynamic, 2, 3} :
        o = WinogradInput(1, 1,
                IF swap THEN LaidOut(imageDims, n, w, h, c)
                        ELSE LaidOut(imageDims, n, h, w, c),
                IF swap THEN <<t1, t2, n2, w2, h2, c2>>
                        ELSE <<t1, t2, n2, h2, w2, c2>>,
                <<"f32", "f32">>, imageDims, 3, ots)

InitWinogradInput ==
    /\ \/ IsArityWinogradInputOp(op)
       \/ IsStructWinogradInputOp(op)
       \/ IsRank2WinogradInputOp(op)
       \/ IsRank4WinogradInputOp(op)
    /\ pc = "built"
    /\ result = "none"
    /\ shape = <<>>

WinogradInputTransformOp_verify ==
    /\ pc = "built"
    /\ op.kind = "winograd.input_transform"
    /\ result' = WinogradInputTransformOpVerify(op)
    /\ pc' = "verified"
    /\ UNCHANGED <<op, shape>>

NextWinogradInput == WinogradInputTransformOp_verify

SpecWinogradInput == InitWinogradInput /\ [][NextWinogradInput]_vars

(***************************************************************************)
(* WinogradFilterTransformOp                                               *)
(***************************************************************************)
isHwcf(o) == o.kernelDimensions = <<0, 1>>

isFchw(o) == o.kernelDimensions = <<2, 3>>

\* A plausible slip: the permutation is left out.
permute_TTFC_TO_TTCF_Identity(vector) == vector

\* permute<Permutation::TTFC_TO_TTCF>: result[i] = vector[perm[i]] with
\* perm = {0, 1, 3, 2}.
permute_TTFC_TO_TTCF(vector) ==
    LET perm == <<0, 1, 3, 2>>
    IN  [i \in 1 .. Len(vector) |-> vector[perm[i] + 1]]

\* The loop of lines 1114-1121: the input tile size once per kernel
\* dimension, then the extents of the other input dimensions in order.
RECURSIVE nonKernelExtents(_, _)
nonKernelExtents(o, i) ==
    IF i >= Len(o.inputShape) THEN <<>>
    ELSE (IF i \in Range(o.kernelDimensions) THEN <<>> ELSE <<o.inputShape[i + 1]>>)
         \o nonKernelExtents(o, i + 1)

winogradFilterExpectedShape(o) ==
    [i \in 1 .. Len(o.kernelDimensions) |-> getInputTileSize(o)] \o nonKernelExtents(o, 0)

\* The rank-2 branch, lines 1075-1093.
winogradFilterVerifyRank2(o) ==
    IF Len(o.outputShape) # 2
    THEN "expected output operand to have rank 2 if input is of rank 2"
    ELSE IF ~verifyCompatibleShape(<<o.kernelSize, o.kernelSize>>, o.inputShape)
    THEN "expected input dims to be equal to kernel size if input is of rank 2"
    ELSE IF ~verifyCompatibleShape(<<getInputTileSize(o), getInputTileSize(o)>>, o.outputShape)
    THEN "expected output dims equal to input tile size if input is of rank 2"
    ELSE "success"

\* WinogradFilterTransformOp::verify: the diagnostic of the first failed
\* check, or "success".
WinogradFilterTransformOpVerify(o) ==
    IF o.numInputs # 1 THEN "expected one input operand"
    ELSE IF o.numOutputs # 1 THEN "expected one output operand"
    ELSE IF o.outputElementType # o.inputElementType
    THEN "expected input/output element types to be identical"
    ELSE IF Len(o.inputShape) # 2 /\ Len(o.inputShape) # 4
    THEN "expected input operand to have rank either 2 or 4"
    ELSE IF Len(o.inputShape) = 2 THEN winogradFilterVerifyRank2(o)
    ELSE IF Len(o.outputShape) # Len(o.inputShape)
    THEN "expected output rank to be equal to input rank"
    ELSE IF Len(o.kernelDimensions) # 2 THEN "expected only 2 kernel dimensions"
    ELSE IF ~isHwcf(o) /\ ~isFchw(o)
    THEN "expect kernel dimensions to be either [0, 1] or [2, 3]"
    ELSE IF \E i \in DOMAIN o.kernelDimensions :
                o.inputShape[o.kernelDimensions[i] + 1] # o.kernelSize
    THEN "expect all kernel dimensions to have the kernel size"
    ELSE LET expected == winogradFilterExpectedShape(o)
             expectedOutputShape == IF isFchw(o) THEN permute_TTFC_TO_TTCF(expected)
                                    ELSE expected
         IN  IF ~verifyCompatibleShape(expectedOutputShape, o.outputShape)
             THEN "incompatible output shape"
             ELSE "success"

(***************************************************************************)
(* Winograd filter transforms under verification.                          *)
(***************************************************************************)
WinogradFilter(ni, no, ishape, oshape, elems, kernelDims, kernelSize, outputTileSize) ==
    [kind |-> "winograd.filter_transform", numInputs |-> ni, numOutputs |-> no,
     inputShape |-> ishape, inputElementType |-> elems[1],
     outputShape |-> oshape, outputElementType |-> elems[2],
     kernelDimensions |-> kernelDims, kernelSize |-> kernelSize,
     outputTileSize |-> outputTileSize]

\* Channel and filter extents.
ChannelExtents == (1 .. MaxChannelExtent) \cup {kDynamic}

\* Extents of a kernel axis around the kernel size 3.
KernelExtents == {kDynamic, 2, 3, 4}

\* [H, W, C, F] laid out with kernel dimensions [0,1], or as [F, C, H, W]
\* with kernel dimensions [2,3].
FilterLaidOut(kernelDims, h, w, c, f) ==
    IF kernelDims = <<0, 1>> THEN <<h, w, c, f>> ELSE <<f, c, h, w>>

\* Number of inputs and outputs and the element types vary; the shapes are
\* input [3,3,2,1] and output [6,6,2,1].
IsArityWinogradFilterOp(o) ==
    \E ni \in 0 .. 2, no \in 0 .. 2, elems \in SeqsOfLen({"f32", "f16"}, 2) :
        o = WinogradFilter(ni, no, <<3, 3, 2, 1>>, <<6, 6, 2, 1>>, elems, <<0, 1>>, 3, 4)

\* Every input rank, every output rank, every list of up to three kernel
\* dimensions; input extents all 3 or all dynamic, output extents dynamic.
IsStructWinogradFilterOp(o) ==
    \E ri \in 0 .. MaxInputRank, ro \in 0 .. MaxInputRank :
    \E kernelDims \in SeqsUpTo(0 .. 3, 3), e \in {kDynamic, 3} :
        o = WinogradFilter(1, 1, [i \in 1 .. ri |-> e], AllDynamic(ro),
                           <<"f32", "f32">>, kernelDims, 3, 4)

\* Rank 2: inputs of extents around the kernel size, outputs of extents
\* around the input tile size.
IsRank2WinogradFilterOp(o) ==
    \E ots \in OutputTileSizes, ishape \in SeqsOfLen(KernelExtents, 2) :
    \E oshape \in SeqsOfLen({kDynamic, ots + 1, ots + 2, ots + 3}, 2) :
        o = WinogradFilter(1, 1, ishape, oshape, <<"f32", "f32">>, <<0, 1>>, 3, ots)

\* Rank 4, both layouts: every kernel, channel and filter extent of the
\* input, every declared output of tile, channel and filter extents.
IsRank4WinogradFilterOp(o) ==
    \E ots \in OutputTileSizes, kernelDims \in {<<0, 1>>, <<2, 3>>} :
    \E h \in KernelExtents, w \in KernelExtents, c \in ChannelExtents, f \in ChannelExtents :
    \E t1 \in {kDynamic, ots + 2, ots + 3}, t2 \in {kDynamic, ots + 2, ots + 3} :
    \E c2 \in ChannelExtents, f2 \in ChannelExtents :
        o = WinogradFilter(1, 1, FilterLaidOut(kernelDims, h, w, c, f),
                           <<t1, t2, c2, f2>>, <<"f32", "f32">>, kernelDims, 3, ots)

InitWinogradFilter ==
    /\ \/ IsArityWinogradFilterOp(op)
       \/ IsStructWinogradFilterOp(op)
       \/ IsRank2WinogradFilterOp(op)
       \/ IsRank4WinogradFilterOp(op)
    /\ pc = "built"
    /\ result = "none"
    /\ shape = <<>>

WinogradFilterTransformOp_verify ==
    /\ pc = "built"
    /\ op.kind = "winograd.filter_transform"
    /\ result' = WinogradFilterTransformOpVerify(op)
    /\ pc' = "verified"
    /\ UNCHANGED <<op, shape>>

NextWinogradFilter == WinogradFilterTransformOp_verify

SpecWinogradFilter == InitWinogradFilter /\ [][NextWinogradFilter]_vars

(***************************************************************************)
(* WinogradOutputTransformOp                                               *)
(***************************************************************************)
\* A plausible slip: the permutation is left out.
permute_TTNHWC_TO_TTNCHW_Identity(vector) == vector

\* permute<Permutation::TTNHWC_TO_TTNCHW>: result[i] = vector[perm[i]] with
\* perm = {0, 1, 2, 5, 3, 4}.
permute_TTNHWC_TO_TTNCHW(vector) ==
    LET perm == <<0, 1, 2, 5, 3, 4>>
    IN  [i \in 1 .. Len(vector) |-> vector[perm[i] + 1]]

\* The loop of lines 1208-1221 over the input shape, permuted when the
\* layout is channel-first.
winogradOutputExpectedShape(o) ==
    LET numImageDims == Len(o.imageDimensions)
        inputShape == IF isNchw(o) THEN permute_TTNHWC_TO_TTNCHW(o.inputShape)
                      ELSE o.inputShape
    IN  [j \in 1 .. Len(o.outputShape) |->
            IF j + numImageDims > Len(inputShape) THEN 1
            ELSE LET e == inputShape[j + numImageDims]
                 IN  IF isDynamic(e) THEN e
                     ELSE IF (j - 1) \notin Range(o.imageDimensions) THEN e
                     ELSE o.outputTileSize * e]

\* The rank-2 branch, lines 1164-1182.
winogradOutputVerifyRank2(o) ==
    IF Len(o.outputShape) # 2
    THEN "expected output operand to have rank 2 if input is of rank 2"
    ELSE IF ~verifyCompatibleShape(<<getInputTileSize(o), getInputTileSize(o)>>, o.inputShape)
    THEN "expected input dims to be equal to input tile size if input is of rank 2"
    ELSE IF ~verifyCompatibleShape(<<o.outputTileSize, o.outputTileSize>>, o.outputShape)
    THEN "expected output dims equal to output tile size if input is of rank 2"
    ELSE "success"

\* A plausible slip: the element types are compared before the ranks, as
\* the input and filter transforms do.
WinogradOutputTransformOpVerifyTypesFirst(o) ==
    IF o.numInputs # 1 THEN "expected one input operand"
    ELSE IF o.numOutputs # 1 THEN "expected one output operand"
    ELSE IF o.outputElementType # o.inputElementType
    THEN "expected input/output element types to be identical"
    ELSE IF Len(o.inputShape) # 2 /\ Len(o.inputShape) # 6
    THEN "expected input operand to have rank either 2 or 6"
    ELSE IF Len(o.inputShape) = 2 THEN winogradOutputVerifyRank2(o)
    ELSE IF Len(o.outputShape) # Len(o.inputShape) - 2
    THEN "expected output rank to be equal to input rank - 2"
    ELSE IF Len(o.imageDimensions) # 2 THEN "expected only 2 image dimensions"
    ELSE IF ~isNchw(o) /\ ~isNhwc(o)
    THEN "expect image dimensions to be either [1, 2] or [2, 3]"
    ELSE IF ~verifyCompatibleShape(winogradOutputExpectedShape(o), o.outputShape)
    THEN "incompatible output shape"
    ELSE "success"

\* WinogradOutputTransformOp::verify: the diagnostic of the first failed
\* check, or "success".
WinogradOutputTransformOpVerify(o) ==
    IF o.numInputs # 1 THEN "expected one input operand"
    ELSE IF o.numOutputs # 1 THEN "expected one output operand"
    ELSE IF Len(o.inputShape) # 2 /\ Len(o.inputShape) # 6
    THEN "expected input operand to have rank either 2 or 6"
    ELSE IF Len(o.inputShape) = 2 THEN winogradOutputVerifyRank2(o)
    ELSE IF o.outputElementType # o.inputElementType
    THEN "expected input/output element types to be identical"
    ELSE IF Len(o.outputShape) # Len(o.inputShape) - 2
    THEN "expected output rank to be equal to input rank - 2"
    ELSE IF Len(o.imageDimensions) # 2 THEN "expected only 2 image dimensions"
    ELSE IF ~isNchw(o) /\ ~isNhwc(o)
    THEN "expect image dimensions to be either [1, 2] or [2, 3]"
    ELSE IF ~verifyCompatibleShape(winogradOutputExpectedShape(o), o.outputShape)
    THEN "incompatible output shape"
    ELSE "success"

(***************************************************************************)
(* Winograd output transforms under verification.                          *)
(***************************************************************************)
WinogradOutput(ni, no, ishape, oshape, elems, imageDims, kernelSize, outputTileSize) ==
    [kind |-> "winograd.output_transform", numInputs |-> ni, numOutputs |-> no,
     inputShape |-> ishape, inputElementType |-> elems[1],
     outputShape |-> oshape, outputElementType |-> elems[2],
     imageDimensions |-> imageDims, kernelSize |-> kernelSize,
     outputTileSize |-> outputTileSize]

\* Number of inputs and outputs and the element types vary; the shapes are
\* input [6,6,1,2,2,3] and output [1,8,8,3].
IsArityWinogradOutputOp(o) ==
    \E ni \in 0 .. 2, no \in 0 .. 2, elems \in SeqsOfLen({"f32", "f16"}, 2) :
        o = WinogradOutput(ni, no, <<6, 6, 1, 2, 2, 3>>, <<1, 8, 8, 3>>, elems,
                           <<1, 2>>, 3, 4)

\* Every input rank up to MaxInputRank + 1, every output rank, every list
\* of up to three image dimensions; all extents dynamic.
IsStructWinogradOutputOp(o) ==
    \E ri \in 0 .. MaxInputRank + 1, ro \in 0 .. MaxInputRank :
    \E imageDims \in SeqsUpTo(0 .. 3, 3) :
        o = WinogradOutput(1, 1, AllDynamic(ri), AllDynamic(ro), <<"f32", "f32">>,
                           imageDims, 3, 4)

\* Rank 2: inputs of extents around the input tile size, outputs of extents
\* around the output tile size, equal or different element types.
IsRank2WinogradOutputOp(o) ==
    \E ots \in OutputTileSizes, elems \in SeqsOfLen({"f32", "f16"}, 2) :
    \E ishape \in SeqsOfLen({kDynamic, ots + 1, ots + 2, ots + 3}, 2) :
    \E oshape \in SeqsOfLen({kDynamic, ots - 1, ots, ots + 1}, 2) :
        o = WinogradOutput(1, 1, ishape, oshape, elems, <<1, 2>>, 3, ots)

\* Rank 6, both layouts, input [T, T, N, H, W, C]: one image axis ranges
\* over every tile count up to MaxTileCount and dynamic; the declared
\* output, [N, H, W, C] or [N, C, H, W], ranges over every image extent up
\* to outputTileSize * MaxTileCount.
IsRank6WinogradOutputOp(o) ==
    \E ots \in OutputTileSizes, imageDims \in {<<1, 2>>, <<2, 3>>}, swap \in BOOLEAN :
    \E t \in {kDynamic, ots + 1, ots + 2} :
    \E n \in {kDynamic, 1}, c \in {kDynamic, 3} :
    \E h \in (0 .. MaxTileCount) \cup {kDynamic}, w \in {kDynamic, 2} :
    \E n2 \in {1, 2}, c2 \in {kDynamic, 3} :
    \E h2 \in (0 .. ots * MaxTileCount) \cup {kDynamic}, w2 \in {kDynamic, 2, 2 * ots} :
        o = WinogradOutput(1, 1,
                IF swap THEN <<t, ots + 2, n, w, h, c>> ELSE <<t, ots + 2, n, h, w, c>>,
                IF swap THEN LaidOut(imageDims, n2, w2, h2, c2)
                        ELSE LaidOut(imageDims, n2, h2, w2, c2),
                <<"f32", "f32">>, imageDims, 3, ots)

InitWinogradOutput ==
    /\ \/ IsArityWinogradOutputOp(op)
       \/ IsStructWinogradOutputOp(op)
       \/ IsRank2WinogradOutputOp(op)
       \/ IsRank6WinogradOutputOp(op)
    /\ pc = "built"
    /\ result = "none"
    /\ shape = <<>>

WinogradOutputTransformOp_verify ==
    /\ pc = "built"
    /\ op.kind = "winograd.output_transform"
    /\ result' = WinogradOutputTransformOpVerify(op)
    /\ pc' = "verified"
    /\ UNCHANGED <<op, shape>>

NextWinogradOutput == WinogradOutputTransformOp_verify

SpecWinogradOutput == InitWinogradOutput /\ [][NextWinogradOutput]_vars

(***************************************************************************)
(* The three Winograd transforms with every pairing of element types and   *)
(* every input rank.                                                       *)
(***************************************************************************)
ElementTypes == {"f32", "f16", "i8"}

WinogradKinds ==
    {"winograd.input_transform", "winograd.filter_transform", "winograd.output_transform"}

\* The operation of a kind; the dimensions attribute is kernel_dimensions
\* for the filter transform and image_dimensions for the other two.
WinogradOp(kind, ishape, oshape, elems, dims) ==
    IF kind = "winograd.input_transform"
    THEN WinogradInput(1, 1, ishape, oshape, elems, dims, 3, 4)
    ELSE IF kind = "winograd.filter_transform"
    THEN WinogradFilter(1, 1, ishape, oshape, elems, dims, 3, 4)
    ELSE WinogradOutput(1, 1, ishape, oshape, elems, dims, 3, 4)

\* Shapes every check of the kind's verifier accepts.
IsWellShapedWinogradOp(o, elems) ==
    \/ o = WinogradOp("winograd.input_transform", <<6, 6>>, <<6, 6>>, elems, <<1, 2>>)
    \/ o = WinogradOp("winograd.input_transform", <<1, 10, 10, 3>>, <<6, 6, 1, 2, 2, 3>>, elems, <<1, 2>>)
    \/ o = WinogradOp("winograd.filter_transform", <<3, 3>>, <<6, 6>>, elems, <<0, 1>>)
    \/ o = WinogradOp("winograd.filter_transform", <<3, 3, 2, 1>>, <<6, 6, 2, 1>>, elems, <<0, 1>>)
    \/ o = WinogradOp("winograd.output_transform", <<6, 6>>, <<4, 4>>, elems, <<1, 2>>)
    \/ o = WinogradOp("winograd.output_transform", <<6, 6, 1, 2, 2, 3>>, <<1, 8, 8, 3>>, elems, <<1, 2>>)

\* Every kind, every pair of element types, every input rank up to
\* MaxInputRank + 1 and every output rank up to MaxInputRank + 1, with
\* extents all dynamic or all 3.
IsTypedWinogradOp(o) ==
    \E kind \in WinogradKinds, elems \in SeqsOfLen(ElementTypes, 2) :
        \/ IsWellShapedWinogradOp(o, elems)
        \/ \E ri \in 0 .. MaxInputRank + 1, ro \in 0 .. MaxInputRank + 1 :
           \E e \in {kDynamic, 3} :
              o = WinogradOp(kind, [i \in 1 .. ri |-> e], AllDynamic(ro), elems,
                             IF kind = "winograd.filter_transform" THEN <<0, 1>>
                             ELSE <<1, 2>>)

InitWinogradTypes ==
    /\ IsTypedWinogradOp(op)
    /\ pc = "built"
    /\ result = "none"
    /\ shape = <<>>

NextWinogradTypes ==
    \/ WinogradInputTransformOp_verify
    \/ WinogradFilterTransformOp_verify
    \/ WinogradOutputTransformOp_verify

SpecWinogradTypes == InitWinogradTypes /\ [][NextWinogradTypes]_vars

(***************************************************************************)
(* AttentionOp                                                             *)
(***************************************************************************)
\* dyn_cast<FloatType>(getScale().getType()) succeeds.
isFloatType(ty) == ty \in {"f32", "f16"}

\* A plausible slip: transpose_v is not looked at.
attentionValueShapeNoTranspose(o) == o.valueShape

\* Lines 1316-1321: the value shape, its last two extents swapped when
\* transpose_v is set.
attentionValueShape(o) ==
    LET lastIdx == Len(o.valueShape)
    IN  IF o.transposeV
        THEN [i \in 1 .. lastIdx |->
                IF i = lastIdx - 1 THEN o.valueShape[lastIdx]
                ELSE IF i = lastIdx THEN o.valueShape[lastIdx - 1]
                ELSE o.valueShape[i]]
        ELSE o.valueShape

rankDiagnostic(operandName) == "expected " \o operandName \o " to have another rank"

\* The checks of the tiled variant, lines 1347-1371.
attentionVerifyTiled(o) ==
    IF Len(o.maxShape) # 1 THEN rankDiagnostic("max")
    ELSE IF Len(o.sumShape) # 1 THEN rankDiagnostic("sum")
    ELSE IF o.outputElementType # o.maxElementType \/ o.maxElementType # o.sumElementType
    THEN "element types of tiled output, max and sum should be same"
    ELSE IF ~verifyCompatibleShape(o.maxShape, o.sumShape) THEN "incompatible sum shape"
    ELSE IF o.maxShape[1] # o.queryShape[1] THEN "Query and max dimension-0 mismatch"
    ELSE "success"

\* The checks of the non-tiled variant, lines 1335-1346.
attentionVerifyVanilla(o) ==
    IF o.queryElementType # o.outputElementType
    THEN "expected element type for Output but found another"
    ELSE IF o.keyShape[3] # o.queryShape[3] THEN "query and key head dimension mismatch"
    ELSE "success"

\* A plausible slip of AttentionOp::verify: the checks of the non-tiled
\* variant are made for the tiled variant too.
AttentionOpVerifyVanillaAlways(o) ==
    LET isTiled == o.numOutputs = 3
        rankToCompareWith == IF isTiled THEN 2 ELSE 3
    IN  IF o.numInputs # 4 THEN "expected 4 input operands: Query, Key, Value and Scale"
        ELSE IF o.numOutputs # 1 /\ o.numOutputs # 3
        THEN "expected 1 or 3 output operands: Output, [Max and Sum]"
        ELSE IF ~o.inputsShaped THEN "expected Query, Key, Value inputs to be of shaped type"
        ELSE IF ~isFloatType(o.scaleType) THEN "expected scale to be of floating point type"
        ELSE IF Len(o.queryShape) # rankToCompareWith THEN rankDiagnostic("query")
        ELSE IF Len(o.keyShape) # rankToCompareWith THEN rankDiagnostic("key")
        ELSE IF Len(o.valueShape) # rankToCompareWith THEN rankDiagnostic("value")
        ELSE IF Len(o.outputShape) # rankToCompareWith THEN rankDiagnostic("output")
        ELSE IF ~verifyCompatibleShape(o.keyShape, attentionValueShape(o))
        THEN "incompatible value shape"
        ELSE IF ~verifyCompatibleShape(o.queryShape, o.outputShape)
        THEN "incompatible output shape"
        ELSE IF \/ o.queryElementType # o.keyElementType
                \/ o.queryElementType # o.valueElementType
                \/ o.queryElementType # o.scaleType
        THEN "element types of (Q)uery, (K)ey and (V)alue and scale should be same"
        ELSE IF o.queryElementType # o.outputElementType
        THEN "expected element type for Output but found another"
        ELSE IF o.keyShape[rankToCompareWith] # o.queryShape[rankToCompareWith]
        THEN "query and key head dimension mismatch"
        ELSE IF isTiled THEN attentionVerifyTiled(o)
        ELSE "success"

\* AttentionOp::verify: the diagnostic of the first failed check, or
\* "success".
AttentionOpVerify(o) ==
    LET isTiled == o.numOutputs = 3
        rankToCompareWith == IF isTiled THEN 2 ELSE 3
    IN  IF o.numInputs # 4 THEN "expected 4 input operands: Query, Key, Value and Scale"
        ELSE IF o.numOutputs # 1 /\ o.numOutputs # 3
        THEN "expected 1 or 3 output operands: Output, [Max and Sum]"
        ELSE IF ~o.inputsShaped THEN "expected Query, Key, Value inputs to be of shaped type"
        ELSE IF ~isFloatType(o.scaleType) THEN "expected scale to be of floating point type"
        ELSE IF Len(o.queryShape) # rankToCompareWith THEN rankDiagnostic("query")
        ELSE IF Len(o.keyShape) # rankToCompareWith THEN rankDiagnostic("key")
        ELSE IF Len(o.valueShape) # rankToCompareWith THEN rankDiagnostic("value")
        ELSE IF Len(o.outputShape) # rankToCompareWith THEN rankDiagnostic("output")
        ELSE IF ~verifyCompatibleShape(o.keyShape, attentionValueShape(o))
        THEN "incompatible value shape"
        ELSE IF ~verifyCompatibleShape(o.queryShape, o.outputShape)
        THEN "incompatible output shape"
        ELSE IF \/ o.queryElementType # o.keyElementType
                \/ o.queryElementType # o.valueElementType
                \/ o.queryElementType # o.scaleType
        THEN "element types of (Q)uery, (K)ey and (V)alue and scale should be same"
        ELSE IF ~isTiled THEN attentionVerifyVanilla(o)
        ELSE attentionVerifyTiled(o)

(***************************************************************************)
(* Attention operations under verification.                                *)
(***************************************************************************)
\* shapes = <<query, key, value, output>>, elems likewise;
\* maxSum = <<max shape, sum shape, max element type, sum element type>>,
\* looked at only when there are three outputs.
Attention(ni, no, shaped, shapes, elems, scaleType, transposeV, maxSum) ==
    [kind |-> "attention", numInputs |-> ni, numOutputs |-> no,
     inputsShaped |-> shaped,
     queryShape |-> shapes[1], keyShape |-> shapes[2],
     valueShape |-> shapes[3], outputShape |-> shapes[4],
     queryElementType |-> elems[1], keyElementType |-> elems[2],
     valueElementType |-> elems[3], outputElementType |-> elems[4],
     scaleType |-> scaleType, transposeV |-> transposeV,
     maxShape |-> maxSum[1], sumShape |-> maxSum[2],
     maxElementType |-> maxSum[3], sumElementType |-> maxSum[4]]

NoMaxSum == <<<<>>, <<>>, "none", "none">>

BatchExtents == {kDynamic, 2}

SequenceExtents == {kDynamic, 8, 16}

\* Number of inputs and outputs, the shapedness of query, key and value,
\* and the scale type vary.
IsArityAttentionOp(o) ==
    \E ni \in 3 .. 5, no \in 0 .. 4, shaped \in BOOLEAN :
    \E scaleType \in {"f32", "f16", "i32", "tensor<f32>"} :
        o = Attention(ni, no, shaped,
                      IF no = 3 THEN <<<<8, 16>>, <<8, 16>>, <<8, 16>>, <<8, 16>>>>
                      ELSE <<<<2, 8, 16>>, <<2, 8, 16>>, <<2, 8, 16>>, <<2, 8, 16>>>>,
                      <<"f32", "f32", "f32", "f32">>, scaleType, FALSE,
                      <<<<8>>, <<8>>, "f32", "f32">>)

\* Every rank of query, key, value and output up to MaxAttentionRank and of
\* max and sum up to 2, with one or three outputs; all extents dynamic.
IsStructAttentionOp(o) ==
    \E no \in {1, 3}, ranks \in SeqsOfLen(0 .. MaxAttentionRank, 4) :
    \E rmax \in 0 .. 2, rsum \in 0 .. 2 :
        o = Attention(4, no, TRUE,
                      [i \in 1 .. 4 |-> AllDynamic(ranks[i])],
                      <<"f32", "f32", "f32", "f32">>, "f32", FALSE,
                      <<AllDynamic(rmax), AllDynamic(rsum), "f32", "f32">>)

\* Every element type of query, key, value, output, scale, max and sum.
IsTypedAttentionOp(o) ==
    \E no \in {1, 3}, elems \in SeqsOfLen({"f32", "f16"}, 4) :
    \E scaleType \in {"f32", "f16"}, maxElem \in {"f32", "f16"}, sumElem \in {"f32", "f16"} :
        o = Attention(4, no, TRUE,
                      IF no = 3 THEN <<<<8, 16>>, <<8, 16>>, <<8, 16>>, <<8, 16>>>>
                      ELSE <<<<2, 8, 16>>, <<2, 8, 16>>, <<2, 8, 16>>, <<2, 8, 16>>>>,
                      elems, scaleType, FALSE, <<<<8>>, <<8>>, maxElem, sumElem>>)

\* The non-tiled variant with every shape of rank 3 for query, key, value
\* and output, and the operations of the example, whose query and output
\* have head dimension 16 or 32.
IsVanillaAttentionOp(o) ==
    \/ \E transposeV \in BOOLEAN :
       \E shapes \in SeqsOfLen({<<b, m, d>> : b \in BatchExtents, m \in SequenceExtents, d \in SequenceExtents}, 4) :
          o = Attention(4, 1, TRUE, shapes, <<"f32", "f32", "f32", "f32">>, "f32",
                        transposeV, NoMaxSum)
    \/ \E d \in {16, 32} :
          o = Attention(4, 1, TRUE, <<<<2, 8, d>>, <<2, 8, 16>>, <<2, 8, 16>>, <<2, 8, d>>>>,
                        <<"f32", "f32", "f32", "f32">>, "f32", FALSE, NoMaxSum)

\* The tiled variant with every shape of rank 2 for query, key, value and
\* output, every extent of max and sum, and an output element type equal to
\* or different from the query's.
IsTiledAttentionOp(o) ==
    \E transposeV \in BOOLEAN, outElem \in {"f32", "f16"} :
    \E shapes \in SeqsOfLen(SeqsOfLen(SequenceExtents, 2), 4) :
    \E maxExtent \in SequenceExtents, sumExtent \in SequenceExtents :
        o = Attention(4, 3, TRUE, shapes, <<"f32", "f32", "f32", outElem>>, "f32",
                      transposeV, <<<<maxExtent>>, <<sumExtent>>, outElem, outElem>>)

InitAttention ==
    /\ \/ IsArityAttentionOp(op)
       \/ IsStructAttentionOp(op)
       \/ IsTypedAttentionOp(op)
       \/ IsVanillaAttentionOp(op)
       \/ IsTiledAttentionOp(op)
    /\ pc = "built"
    /\ result = "none"
    /\ shape = <<>>

AttentionOp_verify ==
    /\ pc = "built"
    /\ op.kind = "attention"
    /\ result' = AttentionOpVerify(op)
    /\ pc' = "verified"
    /\ UNCHANGED <<op, shape>>

NextAttention == AttentionOp_verify

SpecAttention == InitAttention /\ [][NextAttention]_vars

(***************************************************************************)
(* SortOp                                                                  *)
(*                                                                         *)
(* The dimension attribute is a 64-bit integer, kept as its high and low   *)
(* 32-bit words [hi, lo], each read as a signed number.                    *)
(***************************************************************************)
Int64(hi, lo) == [hi |-> hi, lo |-> lo]

\* int sortDim = getDimension(): the conversion of a 64-bit value to int
\* keeps the low 32 bits.
toInt(d) == d.lo

\* SortOp::getOperandRank, getOperandShape: those of output 0.
getOperandRank(o) == Len(o.outputs[1].shape)

getOperandShape(o) == o.outputs[1].shape

\* dyn_cast<IntegerType>(ty) succeeds and the width is 1.
isI1(ty) == ty = "i1"

\* A plausible slip: only the first argument of each pair is compared.
sortOperandVerifyFirstArgOnly(o, index) ==
    LET operandType == o.outputs[index + 1]
    IN  IF Len(operandType.shape) # getOperandRank(o)
        THEN "expected operand to be of the same rank as other operands"
        ELSE IF operandType.shape # getOperandShape(o)
        THEN "expected operand to have same shape as other operands"
        ELSE IF o.regionArgs[2 * index + 1] # operandType.elementType
        THEN "region block argument should be of the operand's element type"
        ELSE "success"

\* The body of the loop of lines 275-292 for output number index (from 0).
sortOperandVerify(o, index) ==
    LET operandType == o.outputs[index + 1]
    IN  IF Len(operandType.shape) # getOperandRank(o)
        THEN "expected operand to be of the same rank as other operands"
        ELSE IF operandType.shape # getOperandShape(o)
        THEN "expected operand to have same shape as other operands"
        ELSE IF \E i \in {2 * index, 2 * index + 1} :
                    o.regionArgs[i + 1] # operandType.elementType
        THEN "region block argument should be of the operand's element type"
        ELSE "success"

\* The loop of lines 275-292 from output number index on: the diagnostic of
\* the first output that fails.
RECURSIVE sortOperandsVerify(_, _)
sortOperandsVerify(o, index) ==
    IF index >= Len(o.outputs) THEN "success"
    ELSE IF sortOperandVerify(o, index) # "success" THEN sortOperandVerify(o, index)
    ELSE sortOperandsVerify(o, index + 1)

\* SortOp::verify: the diagnostic of the first failed check, or "success".
SortOpVerify(o) ==
    IF o.numInputs # 0 THEN "does not expect to take any inputs"
    ELSE IF Len(o.outputs) = 0 THEN "expected at least one outs operand"
    ELSE IF Len(o.regionArgs) # 2 * Len(o.outputs)
    THEN "region block should have 2 * numOutputs arguments"
    ELSE IF toInt(o.dimension) < 0 \/ toInt(o.dimension) >= getOperandRank(o)
    THEN "dimension must be within (0, rank]"
    ELSE IF sortOperandsVerify(o, 0) # "success" THEN sortOperandsVerify(o, 0)
    ELSE IF Len(o.yieldOperands) # 1 THEN "should yield exactly one operand"
    ELSE IF ~isI1(o.yieldOperands[1]) THEN "should yield i1 type"
    ELSE "success"

(***************************************************************************)
(* Sort operations under verification.                                     *)
(***************************************************************************)
Sort(ni, outputs, dimension, args, yields) ==
    [kind |-> "sort", numInputs |-> ni, outputs |-> outputs,
     dimension |-> dimension, regionArgs |-> args, yieldOperands |-> yields]

TensorType(extents, elementType) == [shape |-> extents, elementType |-> elementType]

SortShapes == SeqsUpTo({kDynamic, 4}, MaxSortRank)

\* Any number of inputs and outputs, outputs of every shape, every
\* dimension attribute around the rank in either word; the region is well
\* typed.
IsShapeSortOp(o) ==
    \E ni \in 0 .. 1, n \in 0 .. MaxSortOutputs :
    \E shapes \in SeqsOfLen(SortShapes, n) :
    \E hi \in -1 .. 1, lo \in -1 .. MaxSortRank :
        o = Sort(ni, [i \in 1 .. n |-> TensorType(shapes[i], "f32")], Int64(hi, lo),
                 [i \in 1 .. 2 * n |-> "f32"], <<"i1">>)

\* Outputs of shape [4] of every element type, every region argument list
\* up to 2 * MaxSortOutputs + 1 arguments and every yield of up to two
\* values.
IsRegionSortOp(o) ==
    \E n \in 1 .. MaxSortOutputs :
    \E elems \in SeqsOfLen({"f32", "i32"}, n) :
    \E args \in SeqsUpTo({"f32", "i32"}, 2 * MaxSortOutputs + 1) :
    \E yields \in SeqsUpTo({"i1", "i32", "f32"}, 2) :
        o = Sort(0, [i \in 1 .. n |-> TensorType(<<4>>, elems[i])], Int64(0, 0),
                 args, yields)

InitSort ==
    /\ IsShapeSortOp(op) \/ IsRegionSortOp(op)
    /\ pc = "built"
    /\ result = "none"
    /\ shape = <<>>

SortOp_verify ==
    /\ pc = "built"
    /\ op.kind = "sort"
    /\ result' = SortOpVerify(op)
    /\ pc' = "verified"
    /\ UNCHANGED <<op, shape>>

NextSort == SortOp_verify

SpecSort == InitSort /\ [][NextSort]_vars

(***************************************************************************)
(* TopkOp                                                                  *)
(***************************************************************************)
\* getDimension() >= rank, compared as unsigned 64-bit values, for a rank
\* below 2^31.
dimensionAtLeast(d, rank) == d.hi # 0 \/ d.lo < 0 \/ d.lo >= rank

\* Lines 534-547: the shapes agree on every axis but the one numbered by
\* the dimension attribute.
topkShapesCompatible(o) ==
    \A i \in DOMAIN o.inputValues.shape :
        \/ (o.dimension.hi = 0 /\ i - 1 = o.dimension.lo)
        \/ isDynamic(o.inputValues.shape[i])
        \/ isDynamic(o.outputValues.shape[i])
        \/ o.inputValues.shape[i] = o.outputValues.shape[i]

topkYieldDiagnostic == "region block must end with a linalg_ext.yield i1!"

\* Lines 557-560.  getOperand(0) of a yield without operands reads past the
\* operand list: the verifier may then accept, reject or not return.
topkTerminatorOutcomes(o) ==
    IF ~o.terminatorIsYield THEN {topkYieldDiagnostic}
    ELSE IF Len(o.yieldOperands) = 0
    THEN {"success", topkYieldDiagnostic, "undefined behaviour"}
    ELSE IF o.yieldOperands[1] # "i1" THEN {topkYieldDiagnostic}
    ELSE {"success"}

\* TopkOp::verify: the possible outcomes, each the diagnostic of the first
\* failed check or "success".
TopkOpVerify(o) ==
    LET hasIndices == o.numInputs >= 2
    IN  IF o.numInputs # 1 /\ o.numInputs # 2 THEN {"expected one or two input operands"}
        ELSE IF o.numOutputs # 2 THEN {"expected two output operands"}
        ELSE IF dimensionAtLeast(o.dimension, Len(o.inputValues.shape))
        THEN {"dimension exceeds rank"}
        ELSE IF o.inputValues.elementType # o.outputValues.elementType
        THEN {"expected input/output value types to be identical"}
        ELSE IF hasIndices /\ (o.inputIndices.elementType # "i32" \/ o.outputIndices.elementType # "i32")
        THEN {"expected input/output indices types to be int32"}
        ELSE IF Len(o.inputValues.shape) # Len(o.outputValues.shape)
        THEN {"expected input/output to have the same rank"}
        ELSE IF hasIndices /\ Len(o.inputIndices.shape) # Len(o.outputIndices.shape)
        THEN {"expected input/output to have the same rank"}
        ELSE IF hasIndices /\ ~verifyCompatibleShape(o.inputValues.shape, o.inputIndices.shape)
        THEN {"input indices/values shape must match"}
        ELSE IF ~verifyCompatibleShape(o.outputValues.shape, o.outputIndices.shape)
        THEN {"output indices/values shape must match"}
        ELSE IF ~topkShapesCompatible(o) THEN {"incompatible input/output shapes"}
        ELSE IF Len(o.regionArgs) # 2 THEN {"region block should have 2 arguments"}
        ELSE IF \/ o.regionArgs[1] # o.inputValues.elementType
                \/ o.regionArgs[2] # o.inputValues.elementType
        THEN {"region block types must match input"}
        ELSE topkTerminatorOutcomes(o)

(***************************************************************************)
(* Topk operations under verification.                                     *)
(***************************************************************************)
\* types = <<input values, input indices, output values, output indices>>;
\* the input indices are looked at only when there are two inputs.
Topk(ni, no, dimension, types, args, terminatorIsYield, yields) ==
    [kind |-> "topk", numInputs |-> ni, numOutputs |-> no, dimension |-> dimension,
     inputValues |-> types[1], inputIndices |-> types[2],
     outputValues |-> types[3], outputIndices |-> types[4],
     regionArgs |-> args, terminatorIsYield |-> terminatorIsYield,
     yieldOperands |-> yields]

TopkShapes == SeqsUpTo({kDynamic, 4}, MaxTopkRank)

\* Every number of inputs and outputs, every element type of the four
\* operands; shapes [4] throughout, a well-typed region for f32 values.
IsTypedTopkOp(o) ==
    \E ni \in 0 .. 3, no \in 1 .. 3 :
    \E elems \in SeqsOfLen({"f32", "i32"}, 4) :
        o = Topk(ni, no, Int64(0, 0), [i \in 1 .. 4 |-> TensorType(<<4>>, elems[i])],
                 <<"f32", "f32">>, TRUE, <<"i1">>)

\* Every shape of the four operands, one or two inputs, every dimension
\* attribute around the rank in either word.
IsShapeTopkOp(o) ==
    \E ni \in 1 .. 2, shapes \in SeqsOfLen(TopkShapes, 4) :
    \E hi \in -1 .. 1, lo \in -1 .. MaxTopkRank :
        o = Topk(ni, 2, Int64(hi, lo),
                 <<TensorType(shapes[1], "f32"), TensorType(shapes[2], "i32"),
                   TensorType(shapes[3], "f32"), TensorType(shapes[4], "i32")>>,
                 <<"f32", "f32">>, TRUE, <<"i1">>)

\* Every region argument list of up to three arguments, every terminator
\* and every yield of up to two values.
IsRegionTopkOp(o) ==
    \E ni \in 1 .. 2, elem \in {"f32", "i32"} :
    \E args \in SeqsUpTo({"f32", "i32"}, 3), terminatorIsYield \in BOOLEAN :
    \E yields \in SeqsUpTo({"i1", "i32", "f32"}, 2) :
        o = Topk(ni, 2, Int64(0, 0),
                 <<TensorType(<<4>>, elem), TensorType(<<4>>, "i32"),
                   TensorType(<<2>>, elem), TensorType(<<2>>, "i32")>>,
                 args, terminatorIsYield, yields)

InitTopk ==
    /\ \/ IsTypedTopkOp(op)
       \/ IsShapeTopkOp(op)
       \/ IsRegionTopkOp(op)
    /\ pc = "built"
    /\ result = "none"
    /\ shape = <<>>

TopkOp_verify ==
    /\ pc = "built"
    /\ op.kind = "topk"
    /\ result' \in TopkOpVerify(op)
    /\ pc' = "verified"
    /\ UNCHANGED <<op, shape>>

NextTopk == TopkOp_verify

SpecTopk == InitTopk /\ [][NextTopk]_vars

(***************************************************************************)
(* FftOp                                                                   *)
(***************************************************************************)
\* a & b on two's-complement integers, for a >= 0 or b >= 0.
RECURSIVE bitAnd(_, _)
bitAnd(a, b) ==
    IF a = 0 \/ b = 0 THEN 0
    ELSE IF a = -1 THEN b
    ELSE IF b = -1 THEN a
    ELSE (a % 2) * (b % 2) + 2 * bitAnd(a \div 2, b \div 2)

\* FftOp::verify: the diagnostic of the first failed check, or "success".
FftOpVerify(o) ==
    LET length == o.fftLength
        numInputs == Len(o.inputsScalar)
    IN  IF isDynamic(length) THEN "success"
        ELSE IF bitAnd(length, length - 1) # 0 THEN "only powers of 2 are handled currently"
        ELSE IF numInputs = 0 \/ ~o.inputsScalar[1] THEN "expected to carry stage input"
        ELSE IF numInputs # 1 /\ (numInputs # 3 \/ o.inputsScalar[2] \/ o.inputsScalar[3])
        THEN "expected to carry real and imag coeff inputs"
        ELSE IF o.numOutputs # 2 THEN "expected outputs to be real and imag tensor/memref"
        ELSE "success"

(***************************************************************************)
(* FFT operations under verification.                                      *)
(***************************************************************************)
\* inputsScalar[i] tells whether input i - 1 is a scalar.
Fft(length, inputsScalar, no) ==
    [kind |-> "fft", fftLength |-> length, inputsScalar |-> inputsScalar,
     numOutputs |-> no]

\* Every length up to MaxFftLength and the dynamic one, up to four inputs
\* each scalar or not, up to three outputs.
IsFftOp(o) ==
    \E length \in (0 .. MaxFftLength) \cup {kDynamic} :
    \E inputsScalar \in SeqsUpTo(BOOLEAN, 4), no \in 0 .. 3 :
        o = Fft(length, inputsScalar, no)

InitFft ==
    /\ IsFftOp(op)
    /\ pc = "built"
    /\ result = "none"
    /\ shape = <<>>

FftOp_verify ==
    /\ pc = "built"
    /\ op.kind = "fft"
    /\ result' = FftOpVerify(op)
    /\ pc' = "verified"
    /\ UNCHANGED <<op, shape>>

NextFft == FftOp_verify

SpecFft == InitFft /\ [][NextFft]_vars

(***************************************************************************)
(* ScanOp.                                                                 *)
(***************************************************************************)
\* i != getDimension() for a loop index i that is a non-negative int.
dimensionIs(d, i) == d.hi = 0 /\ d.lo = i

\* Lines 383-388: the input extents of every axis but the scan dimension.
RECURSIVE expectedAccumulatorShape(_, _, _)
expectedAccumulatorShape(inputShapes, dimension, i) ==
    IF i >= Len(inputShapes) THEN <<>>
    ELSE IF dimensionIs(dimension, i)
    THEN expectedAccumulatorShape(inputShapes, dimension, i + 1)
    ELSE <<inputShapes[i + 1]>> \o expectedAccumulatorShape(inputShapes, dimension, i + 1)

\* The lambda of lines 390-394 and 405-409: both extents static and
\* different.
staticAndDifferent(a, b) == ~isDynamic(a) /\ ~isDynamic(b) /\ a # b

\* The checks of lines 397-412, on the input and the output.
scanOutputVerify(o) ==
    IF o.input.elementType # o.output.elementType
    THEN "expected input/output element types to be identical"
    ELSE IF Len(o.input.shape) # Len(o.output.shape)
    THEN "expected input/output to have identical ranks"
    ELSE IF \E i \in DOMAIN o.input.shape :
                staticAndDifferent(o.input.shape[i], o.output.shape[i])
    THEN "incompatible input/output shapes"
    ELSE "success"

\* The values a read past the end of the accumulator's shape may give.
PastTheEnd == {kDynamic, 0, 4, 5}

\* Lines 389-396 and what follows.  zip_equal asserts that its two ranges
\* have the same length; without the assertion it walks the first range to
\* its end and reads the second range past its end.
scanAccumulatorOutcomes(o) ==
    LET expected == expectedAccumulatorShape(o.input.shape, o.dimension, 0)
        declared == o.accumulator.shape
        mismatch == "incompatible input/accumulator shapes"
    IN  IF Len(expected) = Len(declared)
        THEN IF \E i \in DOMAIN expected : staticAndDifferent(expected[i], declared[i])
             THEN {mismatch}
             ELSE {scanOutputVerify(o)}
        ELSE {"assertion failure"}
             \cup {IF \E i \in DOMAIN expected :
                         staticAndDifferent(expected[i], (declared \o <<g>>)[i])
                   THEN mismatch
                   ELSE scanOutputVerify(o) : g \in PastTheEnd}

\* The checks of lines 359-382 all pass: the verifier reaches the pairing
\* of the expected with the declared accumulator shape.
scanReachesPairing(o) ==
    /\ o.numInputs = 1
    /\ o.numOutputs = 2
    /\ o.inputIsShaped
    /\ o.accumulator.elementType = o.input.elementType
    /\ Len(o.accumulator.shape) = Len(o.input.shape) - 1

\* ScanOp::verify: the possible outcomes, each the diagnostic of the first
\* failed check or "success".
ScanOpVerify(o) ==
    IF o.numInputs # 1 THEN {"expected one input operands"}
    ELSE IF o.numOutputs # 2 THEN {"expected two output operands"}
    ELSE IF ~o.inputIsShaped THEN {"expected first input element type to be shaped"}
    ELSE IF o.accumulator.elementType # o.input.elementType
    THEN {"expected input/accumulator element types to be identical"}
    ELSE IF Len(o.accumulator.shape) # Len(o.input.shape) - 1
    THEN {"expected accumulator rank to be equal to input rank - 1"}
    ELSE scanAccumulatorOutcomes(o)

(***************************************************************************)
(* Scan operations under verification.                                     *)
(***************************************************************************)
Scan(ni, no, shaped, input, output, accumulator, dimension) ==
    [kind |-> "scan", numInputs |-> ni, numOutputs |-> no, inputIsShaped |-> shaped,
     input |-> input, output |-> output, accumulator |-> accumulator,
     dimension |-> dimension]

ScanShapes == SeqsUpTo({kDynamic, 4, 5}, MaxScanRank)

\* Values of the dimension attribute: inside the rank, at and above it, and
\* beyond 32 bits.
ScanDimensions == {Int64(hi, lo) : hi \in {0, 1}, lo \in 0 .. MaxScanRank + 1}

\* Operations of any arity over one well-formed set of operands.
IsArityScanOp(o) ==
    \E ni \in 0 .. 2, no \in 1 .. 3, shaped \in BOOLEAN :
        o = Scan(ni, no, shaped, TensorType(<<4, 5>>, "f32"), TensorType(<<4, 5>>, "f32"),
                 TensorType(<<5>>, "f32"), Int64(0, 0))

\* One input and two outputs: every input and accumulator, the output of
\* the input's type.
IsAccumulatorScanOp(o) ==
    \E S \in ScanShapes, A \in ScanShapes, d \in ScanDimensions :
    \E te \in {"f32", "i32"}, ta \in {"f32", "i32"} :
        o = Scan(1, 2, TRUE, TensorType(S, te), TensorType(S, te), TensorType(A, ta), d)

\* One input and two outputs: every input and output, the accumulator the
\* input without the axis of a dimension inside or outside the rank.
IsOutputScanOp(o) ==
    \E S \in ScanShapes, D \in ScanShapes, d \in ScanDimensions :
    \E i \in 1 .. Len(S), te \in {"f32", "i32"}, tout \in {"f32", "i32"} :
        o = Scan(1, 2, TRUE, TensorType(S, te), TensorType(D, tout),
                 TensorType([k \in 1 .. Len(S) - 1 |-> IF k < i THEN S[k] ELSE S[k + 1]], te), d)

InitScan ==
    /\ IsArityScanOp(op) \/ IsAccumulatorScanOp(op) \/ IsOutputScanOp(op)
    /\ pc = "built"
    /\ result = "none"
    /\ shape = <<>>

ScanOp_verify ==
    /\ pc = "built"
    /\ op.kind = "scan"
    /\ result' \in ScanOpVerify(op)
    /\ pc' = "verified"
    /\ UNCHANGED <<op, shape>>

NextScan == ScanOp_verify

SpecScan == InitScan /\ [][NextScan]_vars

(***************************************************************************)
(* ReverseOp.                                                              *)
(***************************************************************************)
\* A plausible slip of the loop of lines 460-469: duplicates are not looked
\* for.
reverseDimsVerifyNoUnique(dims, rank, i) ==
    IF \E k \in DOMAIN dims : dims[k] < 0 \/ dims[k] >= rank
    THEN "all the dimensions must be within [0, rank)"
    ELSE "success"

\* The loop of lines 460-469 from entry i on: each dimension in turn is
\* tested against the rank, then against the dimensions seen before it.
RECURSIVE reverseDimsVerify(_, _, _)
reverseDimsVerify(dims, rank, i) ==
    IF i > Len(dims) THEN "success"
    ELSE IF dims[i] < 0 \/ dims[i] >= rank
    THEN "all the dimensions must be within [0, rank)"
    ELSE IF dims[i] \in {dims[k] : k \in 1 .. i - 1}
    THEN "expected dimensions numbers are all unique"
    ELSE reverseDimsVerify(dims, rank, i + 1)

\* ReverseOp::verify: the diagnostic of the first failed check, or
\* "success".  getOperandRank is the rank of the input.
ReverseOpVerify(o) ==
    IF o.numInputs # 1 THEN "expected exactly one input"
    ELSE IF o.numOutputs # 1 THEN "expected exactly one output"
    ELSE IF o.input.elementType # o.output.elementType
    THEN "expected input/output element types to be identical"
    ELSE IF Len(o.input.shape) # Len(o.output.shape)
    THEN "expexted input/output to have identical ranks"
    ELSE IF \E i \in DOMAIN o.input.shape :
                staticAndDifferent(o.input.shape[i], o.output.shape[i])
    THEN "incompatible input/output shapes"
    ELSE reverseDimsVerify(o.dims, Len(o.input.shape), 1)

(***************************************************************************)
(* Reverse operations under verification.                                  *)
(***************************************************************************)
Reverse(ni, no, input, output, dims) ==
    [kind |-> "reverse", numInputs |-> ni, numOutputs |-> no, input |-> input,
     output |-> output, dims |-> dims]

\* Operations of any arity, element types and shapes with one or no
\* reversed axis.
IsTypedReverseOp(o) ==
    \E ni \in 0 .. 2, no \in 0 .. 2, te \in {"f32", "i32"} :
    \E S \in SeqsUpTo({kDynamic, 4, 5}, 2), D \in SeqsUpTo({kDynamic, 4, 5}, 2) :
    \E dims \in {<<>>, <<0>>} :
        o = Reverse(ni, no, TensorType(S, "f32"), TensorType(D, te), dims)

\* Operations of every rank up to MaxReverseRank with any list of reversed
\* axes over -1 .. rank of at most rank + 1 entries.
IsDimsReverseOp(o) ==
    \E r \in 0 .. MaxReverseRank : \E dims \in SeqsUpTo(-1 .. r, r + 1) :
        o = Reverse(1, 1, TensorType(AllDynamic(r), "f32"),
                    TensorType(AllDynamic(r), "f32"), dims)

InitReverse ==
    /\ IsTypedReverseOp(op) \/ IsDimsReverseOp(op)
    /\ pc = "built"
    /\ result = "none"
    /\ shape = <<>>

ReverseOp_verify ==
    /\ pc = "built"
    /\ op.kind = "reverse"
    /\ result' = ReverseOpVerify(op)
    /\ pc' = "verified"
    /\ UNCHANGED <<op, shape>>

NextReverse == ReverseOp_verify

SpecReverse == InitReverse /\ [][NextReverse]_vars

(***************************************************************************)
(* Memory effects.                                                         *)
(*                                                                         *)
(* An operand is an SSA value, named by a number; a value has one type     *)
(* wherever it is used.  Values 1 and 4 are memory buffers, value 2 is a   *)
(* tensor and value 3 a scalar.                                            *)
(***************************************************************************)
ValueTypes == <<"memref", "tensor", "scalar", "memref">>

\* llvm::isa<MemRefType>(value.getType()).
isaMemRefType(value) == ValueTypes[value] = "memref"

\* effects.emplace_back(<effect>::get(), value, DefaultResource::get()).
EffectInstance(effect, value) ==
    [effect |-> effect, value |-> value, resource |-> "DefaultResource"]

\* The loop of lines 56-62 from operand i on.
RECURSIVE inputEffects(_, _)
inputEffects(inputOperands, i) ==
    IF i > Len(inputOperands) THEN <<>>
    ELSE IF ~isaMemRefType(inputOperands[i]) THEN inputEffects(inputOperands, i + 1)
    ELSE <<EffectInstance("Read", inputOperands[i])>>
             \o inputEffects(inputOperands, i + 1)

\* The loop of lines 63-71 from operand i on.
RECURSIVE outputEffects(_, _)
outputEffects(outputOperands, i) ==
    IF i > Len(outputOperands) THEN <<>>
    ELSE IF ~isaMemRefType(outputOperands[i]) THEN outputEffects(outputOperands, i + 1)
    ELSE <<EffectInstance("Read", outputOperands[i]),
           EffectInstance("Write", outputOperands[i])>>
             \o outputEffects(outputOperands, i + 1)

\* A plausible slip of getEffectsImpl: the inputs treated as the outputs
\* are.
getEffectsImplInputsWritten(effects, inputOperands, outputOperands) ==
    effects \o outputEffects(inputOperands, 1) \o outputEffects(outputOperands, 1)

\* getEffectsImpl: the effects vector with the effects of the inputs, then
\* those of the outputs, appended.
getEffectsImpl(effects, inputOperands, outputOperands) ==
    effects \o inputEffects(inputOperands, 1) \o outputEffects(outputOperands, 1)

\* The operations DEFINE_OP_GET_EFFECTS is expanded for.
OpNames ==
    {"ScatterOp", "SortOp", "FftOp", "ReverseOp", "ScanOp", "TopkOp", "PackOp",
     "UnPackOp", "WinogradInputTransformOp", "WinogradFilterTransformOp",
     "WinogradOutputTransformOp", "AttentionOp"}

\* An operation of any kind with any lists of inputs (getDpsInputs) and of
\* outputs (getDpsInits) of at most MaxOperands values each.
IsEffectsOp(o) ==
    \E name \in OpNames :
    \E ins \in SeqsUpTo(DOMAIN ValueTypes, MaxOperands) :
    \E outs \in SeqsUpTo(DOMAIN ValueTypes, MaxOperands) :
        o = [kind |-> name, inputs |-> ins, outputs |-> outs]

\* The caller passes an empty effects vector.
InitEffects ==
    /\ IsEffectsOp(op)
    /\ pc = "built"
    /\ result = <<>>
    /\ shape = <<>>

\* OP_NAME::getEffects(effects).
getEffects(OP_NAME) ==
    /\ pc = "built"
    /\ op.kind = OP_NAME
    /\ result' = getEffectsImpl(result, op.inputs, op.outputs)
    /\ pc' = "effects"
    /\ UNCHANGED <<op, shape>>

NextEffects == \E OP_NAME \in OpNames : getEffects(OP_NAME)

SpecEffects == InitEffects /\ [][NextEffects]_vars

(***************************************************************************)
(* Claims about the pack shape function.                                   *)
(***************************************************************************)
\* The position of dimension d in innerDimsPos, 0 when d is not tiled.
TilePos(innerDimsPos, d) ==
    IF \E i \in DOMAIN innerDimsPos : innerDimsPos[i] = d
    THEN CHOOSE i \in DOMAIN innerDimsPos : innerDimsPos[i] = d
    ELSE 0

\* The ceiling of extent / tileSize for extent >= 0 and tileSize > 0,
\* defined by its property rather than by the source's arithmetic.
CeilOf(extent, tileSize) ==
    CHOOSE n \in 0 .. extent : n * tileSize >= extent /\ (n - 1) * tileSize < extent

\* S' of the claim: the tile count on a tiled axis, the extent elsewhere.
TileCountShape(S, T, P) ==
    [k \in DOMAIN S |->
        LET i == TilePos(P, k - 1)
        IN  IF i = 0 THEN S[k]
            ELSE IF isDynamic(S[k]) \/ isDynamic(T[i]) THEN kDynamic
            ELSE CeilOf(S[k], T[i])]

\* The outer permutation is empty or a permutation of all the axes.
FullOrEmptyPerm(O, r) == O = <<>> \/ (Len(O) = r /\ ~isInvalid(O, r))

PackShapeDone == pc = "done" /\ op.kind = "packShape"

\* C2: for every unpacked shape S of rank r, valid tiled axes P with tile
\* sizes T and outer permutation O (empty or a permutation of 0..r-1), the
\* computed packed shape has length r + |P|; entry i of its first r entries
\* is S'[O[i]] (S'[i] when O is empty), where S' holds the tile count
\* ceil(S[d] / T[i]) on a tiled axis (dynamic when the extent or the tile
\* size is dynamic) and S[d] on an untiled axis; its last |P| entries are the
\* tile sizes in the order of P.
C2_PackedShapeFormula ==
    (PackShapeDone /\ FullOrEmptyPerm(op.outerDimsPerm, Len(op.sourceShape))) =>
        LET S == op.sourceShape
            T == op.innerTileSizes
            P == op.innerDimsPos
            O == op.outerDimsPerm
            r == Len(S)
            Sp == TileCountShape(S, T, P)
        IN  /\ Len(shape) = r + Len(P)
            /\ \A i \in 1 .. r :
                  shape[i] = (IF O = <<>> THEN Sp[i] ELSE Sp[O[i] + 1])
            /\ \A i \in 1 .. Len(P) : shape[r + i] = T[i]

\* C2 witness: a shape with the extents 10 and 9 tiled by 3 under a
\* permutation that is not its own inverse has been computed, giving the
\* tile counts 4 and 3.
C2_Witness ==
    /\ PackShapeDone
    /\ op.sourceShape = <<9, kDynamic, 10>>
    /\ op.innerDimsPos = <<2>>
    /\ op.innerTileSizes = <<3>>
    /\ op.outerDimsPerm = <<1, 2, 0>>
    /\ shape = <<kDynamic, 4, 9, 3>>

\* The inverse computation of the claim: undo the outer permutation on the
\* leading r axes, multiply each tiled axis's tile count by its trailing
\* tile size, drop the trailing tile axes.
InversePackedShape(packed, P, O, r) ==
    LET unperm == [k \in 1 .. r |->
                     IF O = <<>> THEN packed[k]
                     ELSE packed[CHOOSE i \in 1 .. r : O[i] = k - 1]]
    IN  [k \in 1 .. r |->
            LET i == TilePos(P, k - 1)
            IN  IF i = 0 THEN unperm[k]
                ELSE IF isDynamic(unperm[k]) \/ isDynamic(packed[r + i])
                THEN kDynamic
                ELSE unperm[k] * packed[r + i]]

\* No padding is needed: every static tiled extent is a multiple of its
\* static tile size.
FullTiles(S, T, P) ==
    \A i \in DOMAIN P :
        (~isDynamic(S[P[i] + 1]) /\ ~isDynamic(T[i])) => S[P[i] + 1] % T[i] = 0

\* C5: for every unpacked shape S, tile sizes T, tiled axes P and outer
\* permutation O (empty or full) where every static tiled extent is
\* divisible by its static tile size, the packed shape followed by the
\* inverse computation gives a shape pointwise-compatible with S.
C5_PackUnpackShapeInverse ==
    (/\ PackShapeDone
     /\ FullOrEmptyPerm(op.outerDimsPerm, Len(op.sourceShape))
     /\ FullTiles(op.sourceShape, op.innerTileSizes, op.innerDimsPos)) =>
        verifyCompatibleShape(
            InversePackedShape(shape, op.innerDimsPos, op.outerDimsPerm,
                               Len(op.sourceShape)),
            op.sourceShape)

\* C5 witness: a fully static shape, divisible on its tiled axis, packed
\* under a permutation that is not its own inverse, and the inverse
\* computation gives back exactly the unpacked shape.
C5_Witness ==
    /\ PackShapeDone
    /\ op.sourceShape = <<9, 10, 10>>
    /\ op.innerDimsPos = <<0>>
    /\ op.innerTileSizes = <<3>>
    /\ op.outerDimsPerm = <<1, 2, 0>>
    /\ shape = <<10, 10, 3, 3>>
    /\ InversePackedShape(shape, op.innerDimsPos, op.outerDimsPerm, 3) = op.sourceShape

(***************************************************************************)
(* Claims about Pack / UnPack verification.                                *)
(***************************************************************************)
PackVerified == pc = "verified" /\ op.kind = "pack"

FullTileDiagnostic ==
    "invalid tile factor provided. Only full tiles are supported when padding_value is not set"

\* Some tiled axis has a static extent and a constant tile size that does
\* not divide it.
HasPartialTile(o) ==
    \E i \in DOMAIN o.innerDimsPos :
        /\ ~isDynamic(o.unpackedShape[o.innerDimsPos[i] + 1])
        /\ o.mixedTiles[i].hasConst
        /\ o.unpackedShape[o.innerDimsPos[i] + 1] % o.mixedTiles[i].val # 0

\* C1: for every Pack operation that passes the common pack/unpack checks:
\* without padding value, PackOp::verify rejects if and only if some tiled
\* axis has a static unpacked extent and a static tile size that does not
\* divide it; with a padding value of the unpacked element type the
\* operation is accepted whatever the divisibility.
C1_FullTileGuard ==
    (PackVerified /\ commonVerifierPackAndUnPackOp(op) = "success") =>
        /\ op.paddingValue = "none" =>
              /\ (result # "success") <=> HasPartialTile(op)
              /\ (result # "success") => result = FullTileDiagnostic
        /\ op.paddingValue = op.elementType => result = "success"

\* C1 witness: unpacked [10], tile 3, packed [4,3] without padding value has
\* been rejected for its partial tile.
C1_Witness ==
    /\ PackVerified
    /\ op.unpackedShape = <<10>>
    /\ op.innerDimsPos = <<0>>
    /\ op.mixedTiles = <<AttrTile(3)>>
    /\ op.outerDimsPerm = <<>>
    /\ op.packedShape = <<4, 3>>
    /\ op.paddingValue = "none"
    /\ result = FullTileDiagnostic

\* An index set that is not valid over rank r, stated without isInvalid.
BadIndexSet(s, r) ==
    \/ Len(s) > r
    \/ \E i, j \in DOMAIN s : i # j /\ s[i] = s[j]
    \/ \E i \in DOMAIN s : s[i] \notin 0 .. r - 1

HasZeroTile(o) ==
    \E i \in DOMAIN o.mixedTiles : o.mixedTiles[i].hasConst /\ o.mixedTiles[i].val = 0

\* The checks of the common verifier that read no extent.
StructurallyValid(o) ==
    /\ ~HasZeroTile(o)
    /\ ~BadIndexSet(o.innerDimsPos, Len(o.unpackedShape))
    /\ ~BadIndexSet(o.outerDimsPerm, Len(o.unpackedShape))
    /\ Len(o.mixedTiles) = Len(o.innerDimsPos)
    /\ Len(o.packedShape) = Len(o.unpackedShape) + Len(o.mixedTiles)

ShapeDiagnostics ==
    {"the shape of output is not large enough to hold the packed data",
     "mismatch in inner tile sizes specified and shaped of tiled dimension in the packed type"}

\* (a) of C3: computed <= declared wherever both are static.
DeclaredHoldsComputed(o) ==
    LET computed == getPackOpResultTypeShape(o.unpackedShape,
                        getStaticTiles(o.mixedTiles), o.innerDimsPos, o.outerDimsPerm)
    IN  \A i \in DOMAIN computed :
            (~isDynamic(computed[i]) /\ ~isDynamic(o.packedShape[i])) =>
                computed[i] <= o.packedShape[i]

\* (b) of C3: a trailing axis is dynamic under a non-constant tile size, and
\* dynamic or equal to the tile size under a constant one.
DeclaredTilesMatch(o) ==
    \A i \in DOMAIN o.mixedTiles :
        LET declared == o.packedShape[Len(o.unpackedShape) + i]
        IN  IF o.mixedTiles[i].hasConst
            THEN isDynamic(declared) \/ declared = o.mixedTiles[i].val
            ELSE isDynamic(declared)

\* C3: for every Pack or UnPack operation that passes the structural
\* checks, the common verifier accepts if and only if (a) computed <=
\* declared on every axis where both are static and (b) every trailing tile
\* axis is dynamic when its tile size is dynamic, and dynamic or equal to
\* the tile size when it is static.
C3_DeclaredPackedShape ==
    (pc = "verified" /\ op.kind \in {"pack", "unpack"} /\ StructurallyValid(op)) =>
        /\ (result \notin ShapeDiagnostics) <=>
              (DeclaredHoldsComputed(op) /\ DeclaredTilesMatch(op))
        /\ op.kind = "unpack" =>
              ((result = "success") <=> (result \notin ShapeDiagnostics))

\* C3 witness: an UnPack whose declared packed shape [4,3] is larger than
\* the computed [3,3] has been accepted.
C3_Witness ==
    /\ pc = "verified"
    /\ op.kind = "unpack"
    /\ op.unpackedShape = <<9>>
    /\ op.innerDimsPos = <<0>>
    /\ op.mixedTiles = <<AttrTile(3)>>
    /\ op.packedShape = <<4, 3>>
    /\ result = "success"

\* C4: the common verifier rejects every operation in which a tile size is
\* the constant zero, or inner_dims_pos or outer_dims_perm is not a valid
\* index set over the unpacked rank, or the number of tile sizes differs
\* from the number of inner_dims_pos entries, or the packed rank is not the
\* unpacked rank plus the number of tile sizes.
C4_StructuralRejects ==
    (pc = "verified" /\ op.kind \in {"pack", "unpack"} /\ ~StructurallyValid(op)) =>
        result \notin {"success", "none"} \cup ShapeDiagnostics \cup {FullTileDiagnostic}

\* C4 witness: an operation whose inner_dims_pos [0,0] repeats a dimension
\* within the rank, with two nonzero tiles and the right packed rank, has
\* been rejected for it.
C4_Witness ==
    /\ pc = "verified"
    /\ op.kind = "unpack"
    /\ Len(op.unpackedShape) = 2
    /\ op.innerDimsPos = <<0, 0>>
    /\ op.outerDimsPerm = <<>>
    /\ Len(op.mixedTiles) = 2
    /\ ~HasZeroTile(op)
    /\ Len(op.packedShape) = 4
    /\ result = "invalid inner_dims_pos vector"


(***************************************************************************)
(* Claims about ScatterOp::verify.                                         *)
(***************************************************************************)
ScatterVerified == pc = "verified" /\ op.kind = "scatter"

\* indices [5, depth] (i32), base [8,4], dimension map [0], a well-typed
\* two-argument region.
ExampleScatter(depth, ushape) ==
    Scatter(2, 1, <<5, depth>>, "i32", ushape, <<8, 4>>, <<"f32", "f32">>,
            <<0>>, <<"f32", "f32">>, <<"f32">>)

\* C6 as stated: with indices of shape [5,2], updates [5,4] are accepted and
\* updates [5,6] are rejected with the update-exceeds-original diagnostic.
C6_ExampleAsStated ==
    ScatterVerified =>
        /\ op = ExampleScatter(2, <<5, 4>>) => result = "success"
        /\ op = ExampleScatter(2, <<5, 6>>) => result = exceedsDiagnostic

\* C6, amended: with indices of shape [5,1], whose index depth is the
\* length 1 of the dimension map, updates [5,4] are accepted and updates
\* [5,6] are rejected with the update-exceeds-original diagnostic.
C6_ExampleIndexDepthOne ==
    ScatterVerified =>
        /\ op = ExampleScatter(1, <<5, 4>>) => result = "success"
        /\ op = ExampleScatter(1, <<5, 6>>) => result = exceedsDiagnostic

C6_Witness ==
    /\ ScatterVerified
    /\ op = ExampleScatter(1, <<5, 6>>)
    /\ result = exceedsDiagnostic

UpdateRank == Len(op.updateShape)

OutputRank == Len(op.originalShape)

IndexDepth == op.indicesShape[Len(op.indicesShape)]

RanksCovered ==
    /\ UpdateRank - 1 <= OutputRank
    /\ OutputRank <= IndexDepth + UpdateRank - 1

\* C7: an operation whose dimension map length differs from the index
\* depth, whose dimension map is not a valid index set over the output
\* rank, or whose ranks violate
\* update rank - 1 <= output rank <= index depth + update rank - 1
\* is rejected; every accepted operation satisfies that inequality.
C7_DimensionMapAndRanks ==
    ScatterVerified =>
        /\ Len(op.dimensionMap) # IndexDepth => result # "success"
        /\ BadIndexSet(op.dimensionMap, OutputRank) => result # "success"
        /\ UpdateRank - 1 > OutputRank => result # "success"
        /\ OutputRank > IndexDepth + UpdateRank - 1 => result # "success"
        /\ result = "success" => RanksCovered

C7_Witness ==
    /\ ScatterVerified
    /\ Len(op.dimensionMap) = IndexDepth
    /\ ~BadIndexSet(op.dimensionMap, OutputRank)
    /\ OutputRank > IndexDepth + UpdateRank - 1
    /\ result = "index depth and update value does not cover rank of original value"

\* The pairs <<output axis, update axis>>, zero based: the non-indexed
\* trailing output axes with the trailing update axes, and the indexed
\* output axes from OutputRank - UpdateRank + 1 on with the update axes
\* from 1 on.
TrailingPairs ==
    {<<IndexDepth + j, UpdateRank - (OutputRank - IndexDepth) + j>> :
        j \in 0 .. OutputRank - IndexDepth - 1}

IndexedPairs ==
    {<<OutputRank - UpdateRank + 1 + j, 1 + j>> :
        j \in 0 .. IndexDepth - (OutputRank - UpdateRank + 1) - 1}

WithinOutput(pair) ==
    \/ isDynamic(op.originalShape[pair[1] + 1])
    \/ op.updateShape[pair[2] + 1] <= op.originalShape[pair[1] + 1]

PassesRankChecks ==
    /\ op.numInputs = 2 /\ op.numOutputs = 1
    /\ Len(op.indicesShape) = 2
    /\ ~isDynamic(IndexDepth)
    /\ Len(op.dimensionMap) = IndexDepth
    /\ ~BadIndexSet(op.dimensionMap, OutputRank)
    /\ UpdateRank >= 1
    /\ RanksCovered

\* C8: in every accepted operation the update extent does not exceed the
\* output extent on any paired axis unless the output extent is dynamic,
\* and an operation that passes the rank checks and breaks this bound on a
\* paired axis is rejected.
C8_UpdateWithinOutput ==
    ScatterVerified =>
        /\ result = "success" =>
              \A pair \in TrailingPairs \cup IndexedPairs : WithinOutput(pair)
        /\ (PassesRankChecks /\ \E pair \in TrailingPairs \cup IndexedPairs : ~WithinOutput(pair))
              => result # "success"

C8_Witness ==
    /\ ScatterVerified
    /\ PassesRankChecks
    /\ \A pair \in TrailingPairs : WithinOutput(pair)
    /\ \E pair \in IndexedPairs : ~WithinOutput(pair)
    /\ result = indexedExceedsDiagnostic

\* C9: no operation is rejected for the dim#0 match of the indices and the
\* update when one of the two extents is dynamic and the other is static.
C9_DynamicExtentCompatible ==
    (/\ ScatterVerified
     /\ Len(op.indicesShape) >= 1 /\ Len(op.updateShape) >= 1
     /\ isDynamic(op.indicesShape[1]) # isDynamic(op.updateShape[1]))
    => result # "mismatch in shape of indices and update value at dim#0"

(***************************************************************************)
(* Claims about WinogradInputTransformOp::verify.                          *)
(***************************************************************************)
WinogradInputVerified == pc = "verified" /\ op.kind = "winograd.input_transform"

\* ceil((e - kernelSize + 1) / outputTileSize) over the integers.
TileCountOf(e) ==
    LET a == e - op.kernelSize + 1
        b == op.outputTileSize
    IN  IF a >= 0 THEN (a + b - 1) \div b ELSE -((-a) \div b)

MapsAxis(i) ==
    LET e == op.inputShape[i + 1]
    IN  IF isDynamic(e) \/ i \notin Range(op.imageDimensions) THEN e
        ELSE TileCountOf(e)

InputTileSize == op.outputTileSize + op.kernelSize - 1

\* [tile, tile, N, H', W', C] for either layout.
ExpectedWinogradInputShape ==
    IF op.imageDimensions = <<1, 2>>
    THEN <<InputTileSize, InputTileSize, MapsAxis(0), MapsAxis(1), MapsAxis(2), MapsAxis(3)>>
    ELSE <<InputTileSize, InputTileSize, MapsAxis(0), MapsAxis(2), MapsAxis(3), MapsAxis(1)>>

PointwiseCompatible(s1, s2) ==
    /\ Len(s1) = Len(s2)
    /\ \A i \in DOMAIN s1 : s1[i] = kDynamic \/ s2[i] = kDynamic \/ s1[i] = s2[i]

Rank4WinogradInput ==
    /\ WinogradInputVerified
    /\ op.numInputs = 1 /\ op.numOutputs = 1
    /\ op.inputElementType = op.outputElementType
    /\ Len(op.inputShape) = 4
    /\ op.imageDimensions \in {<<1, 2>>, <<2, 3>>}

\* C10: a rank-4 Winograd input transform with image dimensions [1,2] or
\* [2,3] is accepted iff its declared output is pointwise compatible with
\* [tile, tile, N, H', W', C], where an image extent e maps to
\* ceil((e - kernelSize + 1) / outputTileSize) and every other or dynamic
\* extent passes through; input [1,10,10,3] with kernel size 3 and output
\* tile size 4 gives [6,6,1,2,2,3].
C10_ExpectedOutputShape ==
    Rank4WinogradInput =>
        /\ (result = "success") <=> PointwiseCompatible(ExpectedWinogradInputShape, op.outputShape)
        /\ (op.inputShape = <<1, 10, 10, 3>> /\ op.imageDimensions = <<1, 2>> /\ op.outputTileSize = 4)
              => ExpectedWinogradInputShape = <<6, 6, 1, 2, 2, 3>>

(***************************************************************************)
(* Claims about WinogradFilterTransformOp::verify.                         *)
(***************************************************************************)
Rank4WinogradFilter ==
    /\ pc = "verified" /\ op.kind = "winograd.filter_transform"
    /\ Len(op.inputShape) = 4

\* The non-kernel input extents <<C, F>>: in input order for kernel
\* dimensions [0,1], swapped for [2,3].
ChannelsAndFilters ==
    IF op.kernelDimensions = <<0, 1>> THEN <<op.inputShape[3], op.inputShape[4]>>
    ELSE <<op.inputShape[2], op.inputShape[1]>>

\* C11: a rank-4 Winograd filter transform is accepted only if its kernel
\* dimensions are [0,1] or [2,3], both kernel axes of the input have extent
\* kernelSize, the output rank equals the input rank, and the declared
\* output is pointwise compatible with [inputTileSize, inputTileSize, C, F].
C11_FilterAcceptedOnlyIf ==
    (Rank4WinogradFilter /\ result = "success") =>
        /\ op.kernelDimensions \in {<<0, 1>>, <<2, 3>>}
        /\ \A i \in DOMAIN op.kernelDimensions :
              op.inputShape[op.kernelDimensions[i] + 1] = op.kernelSize
        /\ Len(op.outputShape) = Len(op.inputShape)
        /\ PointwiseCompatible(<<InputTileSize, InputTileSize>> \o ChannelsAndFilters,
                               op.outputShape)

C11_Witness ==
    /\ Rank4WinogradFilter /\ result = "success"
    /\ op.kernelDimensions = <<2, 3>>
    /\ op.inputShape = <<1, 2, 3, 3>>
    /\ op.outputShape = <<6, 6, 2, 1>>

(***************************************************************************)
(* Claims about WinogradOutputTransformOp::verify.                         *)
(***************************************************************************)
Rank6WinogradOutput ==
    /\ pc = "verified" /\ op.kind = "winograd.output_transform"
    /\ op.numInputs = 1 /\ op.numOutputs = 1
    /\ op.inputElementType = op.outputElementType
    /\ Len(op.inputShape) = 6
    /\ op.imageDimensions \in {<<1, 2>>, <<2, 3>>}

Scaled(e) == IF e = kDynamic THEN e ELSE op.outputTileSize * e

\* With input [T, T, N, H, W, C]: [N, t*H, t*W, C] for image dimensions
\* [1,2] and [N, C, t*H, t*W] for [2,3].
ExpectedWinogradOutputShape ==
    LET N == op.inputShape[3]
        H == op.inputShape[4]
        W == op.inputShape[5]
        C == op.inputShape[6]
    IN  IF op.imageDimensions = <<1, 2>> THEN <<N, Scaled(H), Scaled(W), C>>
        ELSE <<N, C, Scaled(H), Scaled(W)>>

\* C12: a rank-6 Winograd output transform with input [T, T, N, H, W, C]
\* is accepted iff its declared output is pointwise compatible with
\* [N, t*H, t*W, C] for image dimensions [1,2] and with [N, C, t*H, t*W] for
\* image dimensions [2,3], t the output tile size, dynamic extents passing
\* through.
C12_OutputTransformShape ==
    Rank6WinogradOutput =>
        ((result = "success") <=>
            PointwiseCompatible(ExpectedWinogradOutputShape, op.outputShape))

C12_Witness ==
    /\ Rank6WinogradOutput /\ result = "success"
    /\ op.imageDimensions = <<2, 3>>
    /\ op.inputShape = <<6, 6, 1, 3, 2, 3>>
    /\ op.outputShape = <<1, 3, 12, 8>>

(***************************************************************************)
(* Claims about the element types and ranks of the Winograd transforms.    *)
(***************************************************************************)
ElementTypesDiffer == op.inputElementType # op.outputElementType

\* The operation with the output element type replaced by the input's.
WithInputElementType == [op EXCEPT !.outputElementType = op.inputElementType]

\* C13: the input and filter transforms reject differing input and output
\* element types and every input rank outside {2, 4}; the output transform
\* rejects differing element types unless its input has rank 2, where its
\* outcome does not depend on the element types, and rejects every input
\* rank outside {2, 6}.
C13_ElementTypesAndRanks ==
    /\ (pc = "verified" /\ op.kind \in {"winograd.input_transform", "winograd.filter_transform"}) =>
          /\ ElementTypesDiffer => result # "success"
          /\ Len(op.inputShape) \notin {2, 4} => result # "success"
    /\ (pc = "verified" /\ op.kind = "winograd.output_transform") =>
          /\ (ElementTypesDiffer /\ Len(op.inputShape) # 2) => result # "success"
          /\ Len(op.inputShape) \notin {2, 6} => result # "success"
          /\ Len(op.inputShape) = 2 =>
                result = WinogradOutputTransformOpVerify(WithInputElementType)

C13_Witness ==
    /\ pc = "verified" /\ op.kind = "winograd.output_transform"
    /\ Len(op.inputShape) = 2
    /\ ElementTypesDiffer
    /\ result = "success"

(***************************************************************************)
(* Claims about AttentionOp::verify.                                       *)
(***************************************************************************)
AttentionVerified == pc = "verified" /\ op.kind = "attention"

QKVOShapes == <<op.queryShape, op.keyShape, op.valueShape, op.outputShape>>

\* The value shape, its last two axes swapped when transposeV is set.
ValueShapeAsKey ==
    LET v == op.valueShape
        n == Len(v)
    IN  IF op.transposeV THEN SubSeq(v, 1, n - 2) \o <<v[n], v[n - 1]>> ELSE v

\* Four inputs, shaped query, key and value of one element type, a
\* floating-point scale of that type.
AttentionInputsWellTyped ==
    /\ op.numInputs = 4
    /\ op.inputsShaped
    /\ op.scaleType \in {"f32", "f16"}
    /\ op.queryElementType = op.keyElementType
    /\ op.queryElementType = op.valueElementType
    /\ op.queryElementType = op.scaleType

ValueAndOutputCompatible ==
    /\ PointwiseCompatible(ValueShapeAsKey, op.keyShape)
    /\ PointwiseCompatible(op.outputShape, op.queryShape)

VanillaAttention ==
    /\ AttentionVerified
    /\ op.numOutputs = 1
    /\ AttentionInputsWellTyped
    /\ \A i \in 1 .. 4 : Len(QKVOShapes[i]) = 3
    /\ op.outputElementType = op.queryElementType

\* C14: a non-tiled Attention with a floating-point scale, query, key,
\* value and output of rank 3 and one element type throughout is accepted
\* iff the value shape (last two axes swapped under transposeV) is
\* pointwise compatible with the key shape, the output shape with the query
\* shape, and the extents of axis 2 of key and query are equal; query, key
\* and value [2,8,16] are accepted, query head dimension 32 against key head
\* dimension 16 is rejected.
C14_VanillaAttentionAccepted ==
    VanillaAttention =>
        /\ (result = "success") <=>
              (ValueAndOutputCompatible /\ op.keyShape[3] = op.queryShape[3])
        /\ (op.queryShape = <<2, 8, 16>> /\ op.keyShape = <<2, 8, 16>>
            /\ op.valueShape = <<2, 8, 16>> /\ op.outputShape = <<2, 8, 16>>
            /\ ~op.transposeV) => result = "success"
        /\ (op.queryShape[3] = 32 /\ op.keyShape[3] = 16) => result # "success"

C14_Witness ==
    /\ VanillaAttention
    /\ op.transposeV
    /\ op.keyShape = <<2, 8, 16>>
    /\ op.valueShape = <<2, 16, 8>>
    /\ result = "success"

TiledConditions ==
    /\ \A i \in 1 .. 4 : Len(QKVOShapes[i]) = 2
    /\ Len(op.maxShape) = 1 /\ Len(op.sumShape) = 1
    /\ op.outputElementType = op.maxElementType
    /\ op.maxElementType = op.sumElementType
    /\ PointwiseCompatible(op.maxShape, op.sumShape)
    /\ op.maxShape[1] = op.queryShape[1]

\* C15: an Attention with three outputs is accepted only if query, key,
\* value and output have rank 2, max and sum have rank 1, output, max and
\* sum share one element type, the max and sum shapes are pointwise
\* compatible and the leading extents of max and query are equal; with
\* these and the conditions on the inputs and on the value and output
\* shapes it is accepted, whatever the output element type and the head
\* dimensions of key and query.
C15_TiledAttention ==
    (AttentionVerified /\ op.numOutputs = 3) =>
        /\ result = "success" => TiledConditions
        /\ (AttentionInputsWellTyped /\ TiledConditions /\ ValueAndOutputCompatible)
              => result = "success"

C15_Witness ==
    /\ AttentionVerified /\ op.numOutputs = 3
    /\ result = "success"
    /\ op.outputElementType # op.queryElementType
    /\ op.keyShape[2] = 8 /\ op.queryShape[2] = 16

(***************************************************************************)
(* Claims about SortOp::verify.                                            *)
(***************************************************************************)
SortVerified == pc = "verified" /\ op.kind = "sort"

SortAccepted == SortVerified /\ result = "success"

\* C16: an accepted Sort has exactly 2 * numOutputs region arguments,
\* arguments 2i and 2i+1 of the element type of output i, and yields
\* exactly one value of type i1; a single f32 output needs exactly two f32
\* arguments and an i1 yield, and a region yielding f32 is rejected.
C16_SortRegion ==
    /\ SortAccepted =>
          /\ Len(op.regionArgs) = 2 * Len(op.outputs)
          /\ \A i \in 0 .. Len(op.outputs) - 1 :
                /\ op.regionArgs[2 * i + 1] = op.outputs[i + 1].elementType
                /\ op.regionArgs[2 * i + 2] = op.outputs[i + 1].elementType
          /\ op.yieldOperands = <<"i1">>
    /\ (SortAccepted /\ Len(op.outputs) = 1 /\ op.outputs[1].elementType = "f32") =>
          (op.regionArgs = <<"f32", "f32">> /\ op.yieldOperands = <<"i1">>)
    /\ (SortVerified /\ op.yieldOperands = <<"f32">>) => result # "success"

C16_Witness ==
    /\ SortAccepted
    /\ Len(op.outputs) = 2
    /\ op.outputs[1].elementType = "f32" /\ op.outputs[2].elementType = "i32"
    /\ op.regionArgs = <<"f32", "f32", "i32", "i32">>

\* The value of the dimension attribute lies in [0, rank).
DimensionWithinRank ==
    /\ op.dimension.hi = 0
    /\ 0 <= op.dimension.lo
    /\ op.dimension.lo < Len(op.outputs[1].shape)

SortWellFormed ==
    /\ op.numInputs = 0
    /\ Len(op.outputs) >= 1
    /\ \A i \in DOMAIN op.outputs :
          /\ Len(op.outputs[i].shape) = Len(op.outputs[1].shape)
          /\ op.outputs[i].shape = op.outputs[1].shape
    /\ DimensionWithinRank

\* C17: an accepted Sort has zero inputs and at least one output, every
\* output has the rank and the shape of output 0, and the sort dimension d
\* satisfies 0 <= d < rank; an operation violating any of these is
\* rejected.
C17_SortOperandsAndDimension ==
    SortVerified => (result = "success" => SortWellFormed)

(***************************************************************************)
(* Claims about TopkOp::verify.                                            *)
(***************************************************************************)
TopkVerified == pc = "verified" /\ op.kind = "topk"

\* C18: an accepted Topk has exactly 2 region arguments, both of the input
\* values' element type, and a terminator that yields exactly one value, of
\* type i1; a region whose yield carries zero values or more than one value
\* is rejected.
C18_TopkRegion ==
    /\ (TopkVerified /\ result = "success") =>
          /\ op.regionArgs = <<op.inputValues.elementType, op.inputValues.elementType>>
          /\ op.terminatorIsYield
          /\ op.yieldOperands = <<"i1">>
    /\ (TopkVerified /\ Len(op.yieldOperands) # 1) => result \notin {"success", "none"}

(***************************************************************************)
(* Claims about FftOp::verify.                                             *)
(***************************************************************************)
FftVerified == pc = "verified" /\ op.kind = "fft"

IsPowerOfTwo(n) == \E k \in 0 .. 30 : n = 2 ^ k

\* C19: an FFT operation whose length is static and not a power of two is
\* rejected: lengths 0, 3 and 6 are rejected, lengths 1, 2, 4 and 8 pass
\* the rule.
C19_FftLengthPowerOfTwo ==
    (FftVerified /\ op.fftLength # kDynamic) =>
        /\ ~IsPowerOfTwo(op.fftLength) => result # "success"
        /\ op.fftLength \in {0, 3, 6} => result # "success"
        /\ op.fftLength \in {1, 2, 4, 8} => result # "only powers of 2 are handled currently"

\* C20: every accepted FFT operation, of static or dynamic length, has a
\* scalar stage as input 0, either exactly 1 input or exactly 3 inputs with
\* inputs 1 and 2 non-scalar, and exactly 2 outputs.
C20_FftOperands ==
    (FftVerified /\ result = "success") =>
        /\ Len(op.inputsScalar) >= 1 /\ op.inputsScalar[1]
        /\ \/ Len(op.inputsScalar) = 1
           \/ Len(op.inputsScalar) = 3 /\ ~op.inputsScalar[2] /\ ~op.inputsScalar[3]
        /\ op.numOutputs = 2

(***************************************************************************)
(* Claims about ScanOp::verify.                                            *)
(***************************************************************************)
ScanVerified == pc = "verified" /\ op.kind = "scan"

\* The input shape without the axis of the scan dimension; the whole input
\* shape when the dimension names no axis.
WithoutScanAxis ==
    LET S == op.input.shape
        keep == {i \in DOMAIN S : ~(op.dimension.hi = 0 /\ op.dimension.lo = i - 1)}
        nth(n) == CHOOSE i \in keep : Cardinality({j \in keep : j < i}) = n - 1
    IN  [n \in 1 .. Cardinality(keep) |-> S[nth(n)]]

\* C21: an accepted Scan has an accumulator of the input's element type,
\* of rank input rank - 1 and of a shape pointwise-compatible with the
\* input shape without the scan-dimension axis, and an output of the
\* input's rank, element type and a pointwise-compatible shape.
C21_ScanAccumulatorAndOutput ==
    (ScanVerified /\ result = "success") =>
        /\ op.accumulator.elementType = op.input.elementType
        /\ Len(op.accumulator.shape) = Len(op.input.shape) - 1
        /\ verifyCompatibleShape(op.accumulator.shape, WithoutScanAxis)
        /\ Len(op.output.shape) = Len(op.input.shape)
        /\ verifyCompatibleShape(op.input.shape, op.output.shape)
        /\ op.output.elementType = op.input.elementType

\* C25: whenever the accumulator-rank check has passed, the expected
\* accumulator shape has input rank - 1 entries, the length of the declared
\* accumulator shape, so the pairing's equal-length assertion never fails.
C25_ScanPairingEqualLength ==
    (ScanVerified /\ scanReachesPairing(op)) =>
        /\ Len(expectedAccumulatorShape(op.input.shape, op.dimension, 0))
              = Len(op.input.shape) - 1
        /\ Len(expectedAccumulatorShape(op.input.shape, op.dimension, 0))
              = Len(op.accumulator.shape)
        /\ result # "assertion failure"

(***************************************************************************)
(* Claims about ReverseOp::verify.                                         *)
(***************************************************************************)
ReverseVerified == pc = "verified" /\ op.kind = "reverse"

\* The checks before the reversed axes are looked at have all passed.
ReachesAxisCheck ==
    /\ ReverseVerified
    /\ result \in {"success", "all the dimensions must be within [0, rank)",
                   "expected dimensions numbers are all unique"}

HasDuplicate(list) == \E i, j \in DOMAIN list : i # j /\ list[i] = list[j]

OutsideRank(list, rank) == \E i \in DOMAIN list : list[i] < 0 \/ list[i] >= rank

\* C22: the axis check of ReverseOp::verify accepts a list of reversed axes
\* exactly when isInvalid(list, rank) is false, that is when the list has
\* no duplicate, every index in [0, rank) and at most rank entries;
\* isInvalid is true exactly when the list has more than rank entries, a
\* duplicate, or an index outside [0, rank).
C22_ReverseAxesIndexSet ==
    ReachesAxisCheck =>
        LET rank == Len(op.input.shape)
        IN  /\ (result = "success") = ~isInvalid(op.dims, rank)
            /\ (result = "success") =
                  (/\ ~HasDuplicate(op.dims)
                   /\ ~OutsideRank(op.dims, rank)
                   /\ Len(op.dims) <= rank)
            /\ isInvalid(op.dims, rank) =
                  (\/ Len(op.dims) > rank
                   \/ HasDuplicate(op.dims)
                   \/ OutsideRank(op.dims, rank))

C22_Witness ==
    /\ ReverseVerified
    /\ Len(op.input.shape) = 3
    /\ op.dims = <<2, 0>>
    /\ result = "success"
    /\ ~isInvalid(op.dims, 3)

(***************************************************************************)
(* Claims about the memory effects.                                        *)
(***************************************************************************)
EffectsReported == pc = "effects" /\ op.kind \in OpNames

\* The number of effects of a kind reported on a value, and the number of
\* operands of a list that are a value.
EffectCount(effect, value) ==
    Cardinality({i \in DOMAIN result :
                    result[i].effect = effect /\ result[i].value = value})

OperandCount(operands, value) ==
    Cardinality({i \in DOMAIN operands : operands[i] = value})

\* C23: for every operation kind and any lists of inputs and outputs, the
\* effects query reports one Read per memory-buffer input, one Read and one
\* Write per memory-buffer output, nothing for an operand that is not a
\* memory buffer, and no Write on an input: the Writes on a value are those
\* of the outputs it is, so a value that is only an input carries none.
C23_EffectsPerOperand ==
    EffectsReported =>
        \A value \in DOMAIN ValueTypes :
            /\ ValueTypes[value] = "memref" =>
                  /\ EffectCount("Read", value) =
                        OperandCount(op.inputs, value) + OperandCount(op.outputs, value)
                  /\ EffectCount("Write", value) = OperandCount(op.outputs, value)
            /\ ValueTypes[value] # "memref" =>
                  \A i \in DOMAIN result : result[i].value # value
            /\ OperandCount(op.outputs, value) = 0 =>
                  EffectCount("Write", value) = 0
            /\ \A i \in DOMAIN result : result[i].effect \in {"Read", "Write"}

C23_Witness ==
    /\ EffectsReported
    /\ op.kind = "ScatterOp"
    /\ op.inputs = <<1, 2>>
    /\ op.outputs = <<4>>
    /\ result = <<EffectInstance("Read", 1), EffectInstance("Read", 4),
                  EffectInstance("Write", 4)>>

(***************************************************************************)
(* Claims about the rank-2 form of WinogradInputTransformOp::verify.       *)
(***************************************************************************)
Rank2WinogradInput ==
    /\ WinogradInputVerified
    /\ op.numInputs = 1 /\ op.numOutputs = 1
    /\ op.inputElementType = op.outputElementType
    /\ Len(op.inputShape) = 2

StaticAndAbove(extent, bound) == extent # kDynamic /\ extent > bound

\* C24: a rank-2 Winograd input transform is rejected whenever input
\* extent 0 or input extent 1 is static and greater than inputTileSize, and
\* is accepted only if the output has rank 2 and is pointwise-compatible
\* with [inputTileSize, inputTileSize].
C24_Rank2InputTransform ==
    Rank2WinogradInput =>
        /\ StaticAndAbove(op.inputShape[1], InputTileSize) => result # "success"
        /\ StaticAndAbove(op.inputShape[2], InputTileSize) => result # "success"
        /\ result = "success" =>
              /\ Len(op.outputShape) = 2
              /\ PointwiseCompatible(op.outputShape, <<InputTileSize, InputTileSize>>)

(***************************************************************************)
(* Claims about the index ranges of ScatterOp::verify.                     *)
(***************************************************************************)
\* The diagnostics of the checks that come before the extent loops.
BeforeExtentLoops ==
    {"expected two input operands", "expected one output operand",
     "expected indices to be of rank 2 of i32 element type",
     "expected index depth is static", "invalid number of dimension map entries ",
     "dimension map is invalid", "expected update value to be at least rank 1",
     "mismatch in shape of indices and update value at dim#0",
     "update value rank exceeds the rank of the original value",
     "index depth and update value does not cover rank of original value"}

ReachesExtentLoops == ScatterVerified /\ result \notin BeforeExtentLoops

\* A range <<begin, end>> is well formed, and lies in [lo, hi).
WellFormed(range) == range[1] <= range[2]

Inside(range, lo, hi) == \A i \in range[1] .. range[2] - 1 : lo <= i /\ i < hi

SameLength(r1, r2) == r1[2] - r1[1] = r2[2] - r2[1]

\* C26: whenever ScatterOp::verify reaches its two extent loops, each of
\* the four index ranges has begin <= end, the two ranges paired in each
\* loop have the same length, every output-axis index lies in
\* [0, output rank) and every update-axis index in [1, update rank).
C26_ScatterRangesWellFormed ==
    ReachesExtentLoops =>
        LET r == scatterRanges(op)
        IN  /\ WellFormed(r.sliceOriginal) /\ WellFormed(r.sliceUpdate)
            /\ WellFormed(r.indexedOriginal) /\ WellFormed(r.indexedUpdate)
            /\ SameLength(r.sliceOriginal, r.sliceUpdate)
            /\ SameLength(r.indexedOriginal, r.indexedUpdate)
            /\ Inside(r.sliceOriginal, 0, OutputRank)
            /\ Inside(r.indexedOriginal, 0, OutputRank)
            /\ Inside(r.sliceUpdate, 1, UpdateRank)
            /\ Inside(r.indexedUpdate, 1, UpdateRank)

\* Both loops have a pair to compare.
C26_Witness ==
    /\ ReachesExtentLoops
    /\ scatterRanges(op).sliceOriginal = <<1, 2>>
    /\ scatterRanges(op).sliceUpdate = <<2, 3>>
    /\ scatterRanges(op).indexedOriginal = <<0, 1>>
    /\ scatterRanges(op).indexedUpdate = <<1, 2>>

(***************************************************************************)
(* Claims about the tile count of the common Pack / UnPack verifier.       *)
(***************************************************************************)
PackOrUnPackVerified == pc = "verified" /\ op.kind \in {"pack", "unpack"}

TileCountDiagnostic == "blocking factors must be less or equal than the input rank"

\* The diagnostics of the checks before the tile count is compared with the
\* unpacked rank, and of those before the packed shapes are compared.
BeforeTileCount ==
    {"invalid tile factor", "invalid inner_dims_pos vector",
     "invalid outer_dims_perm vector",
     "blocking factors must equal the number of dimensions to block"}

BeforeShapeComparison ==
    BeforeTileCount \cup {TileCountDiagnostic,
                          "packed rank must equal unpacked rank + blocking factors"}

\* C27: the common verifier never fails with the tile-count diagnostic:
\* every operation that passes the checks before it has a tile count of at
\* most the unpacked rank; and whenever the computed packed shape is
\* compared with the declared one the two have the same rank.
C27_TileCountFailureUnreachable ==
    PackOrUnPackVerified =>
        /\ result # TileCountDiagnostic
        /\ result \notin BeforeTileCount =>
              Len(op.mixedTiles) <= Len(op.unpackedShape)
        /\ result \notin BeforeShapeComparison =>
              Len(getPackOpResultTypeShape(op.unpackedShape, getStaticTiles(op.mixedTiles),
                                           op.innerDimsPos, op.outerDimsPerm))
                  = Len(op.packedShape)

\* As many tiles as the unpacked rank has axes, and the shapes compared.
C27_Witness ==
    /\ PackOrUnPackVerified
    /\ Len(op.unpackedShape) = 2
    /\ Len(op.mixedTiles) = 2
    /\ Len(op.packedShape) = 4
    /\ result \notin BeforeShapeComparison

(***************************************************************************)
(* Claims about UnPackOp::verify.                                          *)
(***************************************************************************)
UnPackVerified == pc = "verified" /\ op.kind = "unpack"

\* Unpacked [10], tile 3 on axis 0, packed [4,3], no padding value.
PartialTileExample(kind) ==
    PackOrUnPack(kind, <<10>>, <<4, 3>>, <<0>>, <<AttrTile(3)>>, <<>>, "none")

\* C28: UnPackOp::verify accepts exactly the operations the common
\* verifier accepts, with no full-tile guard: the UnPack of unpacked [10],
\* tile 3, packed [4,3] is accepted, and the Pack of the same shapes
\* without padding value is rejected.
C28_UnPackIsCommonVerifier ==
    /\ UnPackVerified =>
          /\ (result = "success") = (commonVerifierPackAndUnPackOp(op) = "success")
          /\ result # FullTileDiagnostic
    /\ (UnPackVerified /\ op = PartialTileExample("unpack")) => result = "success"
    /\ (PackVerified /\ op = PartialTileExample("pack")) => result = FullTileDiagnostic

C28_Witness ==
    /\ UnPackVerified
    /\ op = PartialTileExample("unpack")
    /\ HasPartialTile(op)
    /\ result = "success"

=============================================================================
